---- MODULE Spec2Model ----
(***************************************************************************)
(* Verification model of the perfect-menu print-orders agent:              *)
(*   - the persisted printer registry (utils.SavePrinters / LoadPrinters), *)
(*   - the supervisor start-up sequence (cmd/main.go),                     *)
(*   - the per-printer WebSocket session loop (services.RunAgent,          *)
(*     handleConnection, handlePrintJob),                                  *)
(*   - the ESC/POS rasterization (services.convertImageToESCPOS),          *)
(*   - the thermal sink and the dispatch by printer type                   *)
(*     (services.sendToThermalPrinter, sendFileToPrinter,                  *)
(*     sendToSystemPrinter),                                               *)
(*   - the subnet scan (services.DiscoverPrinters).                        *)
(***************************************************************************)
EXTENDS Integers, Sequences, FiniteSets, TLC

(***************************************************************************)
(* Bounds of the model                                                     *)
(***************************************************************************)
\* longest incoming batch handed to one SavePrinters call
MaxBatch == 2
\* longest persisted registry the free-merge specification explores
MaxReg == 3
\* frames the backend delivers on one connection before the frame that ends
\* it (an unregister, a dropped connection or a malformed frame)
MaxFrames == 1
\* largest copies value of a print job
MaxCopies == 2
\* most orders carried by one print_order payload (PDF build)
MaxOrders == 2

(***************************************************************************)
(* Value universes                                                         *)
(***************************************************************************)
IPs == {"10.0.0.5", "10.0.0.7"}
Keys == {"", "k1"}
\* default raster width written by SavePrinters
DefaultSize == 576
Sizes == {0, 384}

\* a printers file that does not exist on disk
NoFile == [exists |-> FALSE, data |-> <<>>]

\* a printers file holding the JSON array js
FileOf(js) == [exists |-> TRUE, data |-> js]

VARIABLES
    file,       \* config/printers.json: NoFile, or FileOf(a sequence of JSON objects)
    incoming,   \* argument of the latest SavePrinters call
    saveErr,    \* whether the latest SavePrinters call returned an error
    prevFile,   \* contents of the file when the latest SavePrinters call began
    mpc,        \* position of main() in its start-up sequence
    printers,   \* main's in-memory slice of printers
    idx,        \* loop index i of main's registration loop
    dirty,      \* main's dirty flag
    issued,     \* indexes of printers a credential was issued to in this run
    agentP,     \* the Printer value each started RunAgent goroutine was given
    build,      \* which revision of the services package is built
    sess,       \* per started agent: the state of its RunAgent goroutine
    img,        \* the bitmap handed to convertImageToESCPOS
    escpos,     \* what convertImageToESCPOS returned for img, once it was called
    thermal,    \* one sendToThermalPrinter call and the connection it used
    route,      \* one sendFileToPrinter call and the sink it reached
    scan        \* one DiscoverPrinters call: its goroutines and channels

regVars == <<file, incoming, saveErr, prevFile>>

mainVars == <<mpc, printers, idx, dirty, issued, agentP>>

sessVars == <<build, sess>>

rasterVars == <<img, escpos>>

ioVars == <<thermal, route, scan>>

vars == <<file, incoming, saveErr, prevFile, mpc, printers, idx, dirty, issued,
          agentP, build, sess, img, escpos, thermal, route, scan>>

\* the bitmap of width 0 and height 0
NoImage == [w |-> 0, h |-> 0, px |-> <<>>]

\* convertImageToESCPOS has not been called
NotConverted == [done |-> FALSE, data |-> <<>>]

\* sendToThermalPrinter has not been called
NotSent ==
    [size |-> 0, called |-> FALSE, err |-> "", dials |-> 0, writes |-> 0,
     closed |-> FALSE, wire |-> <<>>]

\* sendFileToPrinter has not been called
NotRouted ==
    [type |-> <<>>, name |-> "", ip |-> "", goos |-> "", called |-> FALSE,
     sink |-> "", cmd |-> <<>>, err |-> ""]

\* DiscoverPrinters has not been called
NotScanning == [pc |-> "idle"]

\* no bitmap is being converted, nothing is being sent or scanned
RasterIdle ==
    /\ img = NoImage
    /\ escpos = NotConverted
    /\ thermal = NotSent
    /\ route = NotRouted
    /\ scan = NotScanning

(***************************************************************************)
(* model.Printer and its JSON encoding                                     *)
(***************************************************************************)
\* the model.Printer values the model draws inputs from (the identity, the
\* credential and the raster width; the other fields are copied like AgentKey)
Printer == [IP : IPs, AgentKey : Keys, Size : Sizes]

\* json.Marshal of a model.Printer: agent_key and size carry omitempty
MarshalPrinter(p) ==
    [k \in {"ip"}
           \cup (IF p.AgentKey # "" THEN {"agent_key"} ELSE {})
           \cup (IF p.Size # 0 THEN {"size"} ELSE {})
       |-> CASE k = "ip" -> p.IP
             [] k = "agent_key" -> p.AgentKey
             [] k = "size" -> p.Size]

\* json.Unmarshal into a model.Printer: a missing key leaves the zero value
UnmarshalPrinter(j) ==
    [IP       |-> IF "ip" \in DOMAIN j THEN j["ip"] ELSE "",
     AgentKey |-> IF "agent_key" \in DOMAIN j THEN j["agent_key"] ELSE "",
     Size     |-> IF "size" \in DOMAIN j THEN j["size"] ELSE 0]

MarshalPrinters(ps) == [i \in 1..Len(ps) |-> MarshalPrinter(ps[i])]

UnmarshalPrinters(js) == [i \in 1..Len(js) |-> UnmarshalPrinter(js[i])]

\* LoadPrinters: an absent file is the empty registry
LoadPrinters(f) == IF ~f.exists THEN <<>> ELSE UnmarshalPrinters(f.data)

(***************************************************************************)
(* utils.SavePrinters                                                      *)
(***************************************************************************)
\* the addresses of a slice of printers
IPsOf(ps) == {ps[i].IP : i \in 1..Len(ps)}

UniqueIPs(ps) == \A i, j \in 1..Len(ps) : ps[i].IP = ps[j].IP => i = j

\* the Size default applied to a loop copy of a record
WithDefaultSize(p) == IF p.Size = 0 THEN [p EXCEPT !.Size = DefaultSize] ELSE p

\* last index of a record with the given IP (later map writes win)
LastIndexOf(ps, ip) ==
    CHOOSE i \in 1..Len(ps) :
        /\ ps[i].IP = ip
        /\ \A j \in (i+1)..Len(ps) : ps[j].IP # ip

\* a map that is never filled from the records read from the file
ExistingPrintersMap_Unfilled(existingPrinters) ==
    [ip \in {} |-> existingPrinters]

\* existingPrintersMap: keyed by IP, built from the records read from the file
ExistingPrintersMap(existingPrinters) ==
    [ip \in {existingPrinters[i].IP : i \in 1..Len(existingPrinters)}
        |-> WithDefaultSize(existingPrinters[LastIndexOf(existingPrinters, ip)])]

\* a second loop that appends the new printers last first
NewPrinters_Reversed(existingPrinters, ps) ==
    LET m == ExistingPrintersMap(existingPrinters)
        fresh == SelectSeq(ps, LAMBDA p : p.IP \notin DOMAIN m)
    IN  [i \in 1..Len(fresh) |-> WithDefaultSize(fresh[Len(fresh) + 1 - i])]

\* the incoming printers the second loop appends
NewPrinters(existingPrinters, ps) ==
    LET m == ExistingPrintersMap(existingPrinters)
        fresh == SelectSeq(ps, LAMBDA p : p.IP \notin DOMAIN m)
    IN  [i \in 1..Len(fresh) |-> WithDefaultSize(fresh[i])]

\* a merge that lets the incoming record replace the registered one
SavePrintersFile_Overwrite(f, ps) ==
    LET existingPrinters == LoadPrinters(f)
        lastIncoming(ip) == ps[LastIndexOf(ps, ip)]
        updated == [i \in 1..Len(existingPrinters) |->
                      IF existingPrinters[i].IP \in IPsOf(ps)
                      THEN lastIncoming(existingPrinters[i].IP)
                      ELSE existingPrinters[i]]
    IN  FileOf(MarshalPrinters(updated \o NewPrinters(existingPrinters, ps)))

\* contents of the file after a SavePrinters call that returned nil
SavePrintersFile(f, ps) ==
    LET existingPrinters == LoadPrinters(f)
    IN  FileOf(MarshalPrinters(existingPrinters \o NewPrinters(existingPrinters, ps)))

(***************************************************************************)
(* Inputs                                                                  *)
(***************************************************************************)
RECURSIVE SeqsUpTo(_, _)
SeqsUpTo(S, n) ==
    IF n = 0 THEN {<<>>}
    ELSE LET shorter == SeqsUpTo(S, n - 1)
         IN  shorter \cup {Append(q, x) : q \in {r \in shorter : Len(r) = n - 1}, x \in S}

Min(a, b) == IF a < b THEN a ELSE b

\* room left in the explored registry
Room(f) == MaxReg - Len(LoadPrinters(f))

\* the incoming batches explored against the file f
Batches(f) == SeqsUpTo(Printer, Min(MaxBatch, Room(f)))

\* registries a previous run (or an older release) can have left on disk
InitialFiles ==
    {NoFile} \cup
    {FileOf(MarshalPrinters(ps)) : ps \in {q \in SeqsUpTo(Printer, 2) : UniqueIPs(q)}}

(***************************************************************************)
(* Specification of the registry under arbitrary merges                    *)
(***************************************************************************)
\* main() has not run: nothing loaded, no agent started
MainIdle ==
    /\ mpc = "idle"
    /\ printers = <<>>
    /\ idx = 1
    /\ dirty = FALSE
    /\ issued = {}
    /\ agentP = <<>>
    /\ build = "img"
    /\ sess = <<>>
    /\ RasterIdle

RegInit ==
    /\ file \in InitialFiles
    /\ incoming = <<>>
    /\ saveErr = FALSE
    /\ prevFile = file
    /\ MainIdle

\* SavePrinters(printersFile, printers) returning nil
SavePrintersOk(ps) ==
    /\ prevFile' = file
    /\ incoming' = ps
    /\ saveErr' = FALSE
    /\ file' = SavePrintersFile(file, ps)

\* SavePrinters returning an error (mkdir, read, unmarshal or write failed)
SavePrintersErr(ps) ==
    /\ prevFile' = file
    /\ incoming' = ps
    /\ saveErr' = TRUE
    /\ file' = file

Merge ==
    /\ \E ps \in Batches(file) : SavePrintersOk(ps)
    /\ UNCHANGED <<mainVars, sessVars, rasterVars, ioVars>>

\* the batches a failing call is explored with: every error return of
\* SavePrinters (mkdir, read, unmarshal, write) is independent of the batch
FailedBatches(f) == {ps \in Batches(f) : Len(ps) <= 1}

MergeFails ==
    /\ \E ps \in FailedBatches(file) : SavePrintersErr(ps)
    /\ UNCHANGED <<mainVars, sessVars, rasterVars, ioVars>>

RegNext == Merge \/ MergeFails

SpecRegistry == RegInit /\ [][RegNext]_vars


(***************************************************************************)
(* services.RunAgent / handleConnection / handlePrintJob                   *)
(*   build "pdf": src/internal/services/ws.go                              *)
(*   build "img": src/unnamed/part_001, lines 418-568                      *)
(***************************************************************************)
Builds == {"pdf", "img"}

\* one entry of the I/O history of a connection
Ev(ev, type, key, ok, extra) ==
    [ev |-> ev, type |-> type, key |-> key, ok |-> ok, extra |-> extra]

\* conn.WriteJSON of a message; ok tells whether the write returned nil
Wrote(type, key, ok, extra) == Ev("write", type, key, ok, extra)

\* conn.ReadJSON returning a frame of the given type
ReadFrame(type) == Ev("read", type, "", TRUE, "none")

\* conn.ReadJSON returning an error
ReadFailed(kind) == Ev("read", kind, "", FALSE, "none")

\* no print job in progress; of a job in progress: n the iterations of its
\* loop (copies, or orders), i the iterations done, id the order id, copies
\* and content the Copies and Content values of the payload
NoJob == [n |-> 0, i |-> 0, id |-> 0, copies |-> 0, content |-> ""]

\* the state of a RunAgent goroutine entering its loop; script is the list of
\* outcomes the endpoint imposes on the first connection attempts
NewSession(script) ==
    [pc       |-> "dial",
     acked    |-> FALSE,
     trace    |-> <<>>,
     frames   |-> 0,
     attempts |-> 0,
     backoffs |-> 0,
     script   |-> script,
     ended    |-> "",
     job      |-> NoJob,
     ptype    |-> ""]

Agents == DOMAIN sess

\* the counters of connect attempts and backoff waits of agent a count up to
\* one more than the scripted attempts and stay there
Bump(a, n) == Min(n + 1, Len(sess[a].script) + 1)

\* the I/O history of the connection of agent a, extended by e
Log(a, e) == Append(sess[a].trace, e)

(* RunAgent *)

\* a loop that dials again while the connection it has is still to be closed
RunAgentDial_Unclosed(a) ==
    /\ sess[a].pc \in {"dial", "close"}
    /\ \E ok \in BOOLEAN :
          /\ sess[a].attempts < Len(sess[a].script) => ok = sess[a].script[sess[a].attempts + 1]
          /\ sess' = [sess EXCEPT ![a] =
                 [@ EXCEPT !.pc = IF ok THEN "register" ELSE "retrysleep",
                           !.attempts = Bump(a, @),
                           !.ended = IF ok THEN "" ELSE @]]
    /\ UNCHANGED <<regVars, mainVars, build, rasterVars, ioVars>>

\* ws.go:37  websocket.DefaultDialer.Dial
RunAgentDial(a) ==
    /\ sess[a].pc = "dial"
    /\ \E ok \in BOOLEAN :
          /\ sess[a].attempts < Len(sess[a].script) => ok = sess[a].script[sess[a].attempts + 1]
          /\ sess' = [sess EXCEPT ![a] =
                 [@ EXCEPT !.pc = IF ok THEN "register" ELSE "retrysleep",
                           !.attempts = Bump(a, @),
                           !.ended = IF ok THEN "" ELSE @]]
    /\ UNCHANGED <<regVars, mainVars, build, rasterVars, ioVars>>

\* a retry that continues the loop without sleeping
RunAgentRetrySleep_NoSleep(a) ==
    /\ sess[a].pc = "retrysleep"
    /\ sess' = [sess EXCEPT ![a] = [@ EXCEPT !.pc = "dial"]]
    /\ UNCHANGED <<regVars, mainVars, build, rasterVars, ioVars>>

\* ws.go:38-41  connection failed: sleep 5 s and continue the loop
RunAgentRetrySleep(a) ==
    /\ sess[a].pc = "retrysleep"
    /\ sess' = [sess EXCEPT ![a] = [@ EXCEPT !.pc = "dial", !.backoffs = Bump(a, @)]]
    /\ UNCHANGED <<regVars, mainVars, build, rasterVars, ioVars>>

\* a close of a connection that all the agents share: the open connections
\* of the other agents end with it
RunAgentClose_Shared(a) ==
    /\ sess[a].pc = "close"
    /\ sess' = [b \in DOMAIN sess |->
          IF b = a
          THEN [sess[b] EXCEPT !.pc = "reconnectsleep",
                               !.trace = <<>>,
                               !.frames = 0,
                               !.acked = FALSE]
          ELSE IF sess[b].pc = "read"
          THEN [sess[b] EXCEPT !.pc = "close", !.ended = "dropped"]
          ELSE sess[b]]
    /\ UNCHANGED <<regVars, mainVars, build, rasterVars, ioVars>>

\* ws.go:47  conn.Close() after handleConnection returned
RunAgentClose(a) ==
    /\ sess[a].pc = "close"
    /\ sess' = [sess EXCEPT ![a] =
          [@ EXCEPT !.pc = "reconnectsleep",
                    !.trace = <<>>,
                    !.frames = 0,
                    !.acked = FALSE]]
    /\ UNCHANGED <<regVars, mainVars, build, rasterVars, ioVars>>

\* a RunAgent that returns after a disconnect instead of looping
RunAgentReconnectSleep_Return(a) ==
    /\ sess[a].pc = "reconnectsleep"
    /\ sess' = [sess EXCEPT ![a] = [@ EXCEPT !.pc = "exit"]]
    /\ UNCHANGED <<regVars, mainVars, build, rasterVars, ioVars>>

\* ws.go:48-49  sleep 5 s before the next iteration
RunAgentReconnectSleep(a) ==
    /\ sess[a].pc = "reconnectsleep"
    /\ sess' = [sess EXCEPT ![a] = [@ EXCEPT !.pc = "dial", !.backoffs = Bump(a, @)]]
    /\ UNCHANGED <<regVars, mainVars, build, rasterVars, ioVars>>

(* handleConnection *)

\* a handleConnection that goes on to read after a failed register write
HandleConnectionRegister_IgnoreError(a) ==
    /\ sess[a].pc = "register"
    /\ \E ok \in BOOLEAN :
          sess' = [sess EXCEPT ![a] =
              [@ EXCEPT !.pc = "read",
                        !.trace = Log(a, Wrote("register", agentP[a].AgentKey, ok, "none"))]]
    /\ UNCHANGED <<regVars, mainVars, build, rasterVars, ioVars>>

\* ws.go:54-61  write the register message; a failed write returns
HandleConnectionRegister(a) ==
    /\ sess[a].pc = "register"
    /\ \E ok \in BOOLEAN :
          sess' = [sess EXCEPT ![a] =
              [@ EXCEPT !.pc = IF ok THEN "read" ELSE "close",
                        !.ended = IF ok THEN "" ELSE "register",
                        !.trace = Log(a, Wrote("register", agentP[a].AgentKey, ok, "none"))]]
    /\ UNCHANGED <<regVars, mainVars, build, rasterVars, ioVars>>

\* the frames other than the closing ones that the backend delivers on one
\* connection: up to MaxFrames to the first printer, none to a second one
Quota(a) == IF a = 1 THEN MaxFrames ELSE 0

\* a read loop that takes up frames only once registered was received
MoreFrames_Acked(a) ==
    sess[a].pc = "read" /\ sess[a].frames < Quota(a) /\ sess[a].acked

\* the backend may still deliver a frame that keeps the connection open
MoreFrames(a) == sess[a].pc = "read" /\ sess[a].frames < Quota(a)

\* a read loop that skips a malformed frame and keeps reading
HandleReadError_Continue(a) ==
    /\ sess[a].pc = "read"
    /\ \E kind \in {"dropped", "malformed"} :
          sess' = [sess EXCEPT ![a] =
              [@ EXCEPT !.pc = IF kind = "malformed" /\ sess[a].frames < MaxFrames
                               THEN "read" ELSE "close",
                        !.frames = IF kind = "malformed" /\ @ < MaxFrames THEN @ + 1 ELSE @,
                        !.ended = IF kind = "malformed" /\ sess[a].frames < MaxFrames
                                  THEN @ ELSE kind,
                        !.trace = Log(a, ReadFailed(kind))]]
    /\ UNCHANGED <<regVars, mainVars, build, rasterVars, ioVars>>

\* ws.go:65-69  ReadJSON fails (connection dropped, or a frame that is not JSON)
HandleReadError(a) ==
    /\ sess[a].pc = "read"
    /\ \E kind \in {"dropped", "malformed"} :
          sess' = [sess EXCEPT ![a] =
              [@ EXCEPT !.pc = "close",
                        !.ended = kind,
                        !.trace = Log(a, ReadFailed(kind))]]
    /\ UNCHANGED <<regVars, mainVars, build, rasterVars, ioVars>>

\* ws.go:72-73  registered: logged
HandleRegistered(a) ==
    /\ MoreFrames(a)
    /\ sess' = [sess EXCEPT ![a] =
          [@ EXCEPT !.acked = TRUE,
                    !.frames = @ + 1,
                    !.trace = Log(a, ReadFrame("registered"))]]
    /\ UNCHANGED <<regVars, mainVars, build, rasterVars, ioVars>>

\* the pong message of each build: ws.go:77 carries p.AgentKey,
\* part_001:466-470 carries Type and Timestamp only
Pong(a, ok) ==
    IF build = "pdf"
    THEN Wrote("pong", agentP[a].AgentKey, ok, "none")
    ELSE Wrote("pong", "", ok, "timestamp")

\* a ping case that returns from handleConnection when the pong write fails
HandlePing_Strict(a) ==
    /\ MoreFrames(a)
    /\ \E ok \in BOOLEAN :
          sess' = [sess EXCEPT ![a] =
              [@ EXCEPT !.frames = @ + 1,
                        !.pc = IF ok THEN "read" ELSE "close",
                        !.ended = IF ok THEN @ ELSE "pong",
                        !.trace = Log(a, ReadFrame("ping")) \o <<Pong(a, ok)>>]]
    /\ UNCHANGED <<regVars, mainVars, build, rasterVars, ioVars>>

\* ws.go:75-77  ping: write a pong, the result of the write is ignored
HandlePing(a) ==
    /\ MoreFrames(a)
    /\ \E ok \in BOOLEAN :
          sess' = [sess EXCEPT ![a] =
              [@ EXCEPT !.frames = @ + 1,
                        !.trace = Log(a, ReadFrame("ping")) \o <<Pong(a, ok)>>]]
    /\ UNCHANGED <<regVars, mainVars, build, rasterVars, ioVars>>

\* an unregister that ends the agent for good
HandleUnregister_Exit(a) ==
    /\ sess[a].pc = "read"
    /\ sess' = [sess EXCEPT ![a] =
          [@ EXCEPT !.pc = "exit",
                    !.ended = "unregister",
                    !.trace = Log(a, ReadFrame("unregister"))]]
    /\ UNCHANGED <<regVars, mainVars, build, rasterVars, ioVars>>

\* ws.go:84-86  unregister: return from handleConnection
HandleUnregister(a) ==
    /\ sess[a].pc = "read"
    /\ sess' = [sess EXCEPT ![a] =
          [@ EXCEPT !.pc = "close",
                    !.ended = "unregister",
                    !.trace = Log(a, ReadFrame("unregister"))]]
    /\ UNCHANGED <<regVars, mainVars, build, rasterVars, ioVars>>

\* frame types the switch has no case for
UnknownTypes == {"something_else", "pong"}

\* a switch whose default case returns from handleConnection
HandleUnknown_Return(a) ==
    /\ MoreFrames(a)
    /\ \E t \in UnknownTypes :
          sess' = [sess EXCEPT ![a] =
              [@ EXCEPT !.frames = @ + 1,
                        !.pc = "close",
                        !.ended = "unknown",
                        !.trace = Log(a, ReadFrame(t))]]
    /\ UNCHANGED <<regVars, mainVars, build, rasterVars, ioVars>>

\* ws.go:88-89  default: log and go on reading
HandleUnknown(a) ==
    /\ MoreFrames(a)
    /\ \E t \in UnknownTypes :
          sess' = [sess EXCEPT ![a] =
              [@ EXCEPT !.frames = @ + 1, !.trace = Log(a, ReadFrame(t))]]
    /\ UNCHANGED <<regVars, mainVars, build, rasterVars, ioVars>>

(* handlePrintJob *)

\* the order payloads the backend sends with print_order
Payloads ==
    IF build = "pdf"
    THEN [parseOk : BOOLEAN, success : BOOLEAN, orders : 0..MaxOrders,
          content : {""}, copies : {0}, orderId : {0}]
    ELSE [parseOk : BOOLEAN, success : {TRUE}, orders : {0},
          content : {"", "html"}, copies : (-1)..MaxCopies, orderId : {0, 7}]

\* a validation that lets a payload without content through
Rejected_NoContentCheck(payload) ==
    \/ ~payload.parseOk
    \/ build = "pdf" /\ (~payload.success \/ payload.orders = 0)

\* whether handlePrintJob returns before doing any work
\*   ws.go:97-105 (parse error, !Success, no orders)
\*   part_001:490-498 (parse error, empty content)
Rejected(payload) ==
    \/ ~payload.parseOk
    \/ build = "pdf" /\ (~payload.success \/ payload.orders = 0)
    \/ build = "img" /\ payload.content = ""

\* the log line handlePrintJob writes when it returns before doing any work
\*   "Error parsing order JSON", "No valid orders in payload",
\*   "Received empty content, skipping."
Skipped(payload) ==
    Ev("skip", IF ~payload.parseOk THEN "parse"
               ELSE IF build = "pdf" THEN "novalid" ELSE "empty",
       "", TRUE, "none")

\* a copies value used as it came
Copies_NoDefault(payload) == payload.copies

\* part_001:509-512  copies defaults to 1
Copies(payload) == IF payload.copies < 1 THEN 1 ELSE payload.copies

\* a read loop that hands the job to another goroutine and reads on
HandlePrintOrder_Async(a) ==
    /\ MoreFrames(a)
    /\ \E payload \in Payloads :
          sess' = [sess EXCEPT ![a] =
              [@ EXCEPT !.frames = @ + 1,
                        !.trace = IF Rejected(payload)
                                  THEN Log(a, ReadFrame("print_order")) \o <<Skipped(payload)>>
                                  ELSE Log(a, ReadFrame("print_order")),
                        !.job = IF Rejected(payload) THEN NoJob
                                ELSE [n  |-> IF build = "pdf" THEN payload.orders
                                             ELSE Copies(payload),
                                      i  |-> 0,
                                      id |-> payload.orderId,
                                      copies |-> payload.copies,
                                      content |-> payload.content]]]
    /\ UNCHANGED <<regVars, mainVars, build, rasterVars, ioVars>>

\* ws.go:79-82 with the head of handlePrintJob: read a print_order, parse and
\* validate its payload
HandlePrintOrder(a) ==
    /\ MoreFrames(a)
    /\ \E payload \in Payloads :
          sess' = [sess EXCEPT ![a] =
              [@ EXCEPT !.frames = @ + 1,
                        !.trace = IF Rejected(payload)
                                  THEN Log(a, ReadFrame("print_order")) \o <<Skipped(payload)>>
                                  ELSE Log(a, ReadFrame("print_order")),
                        !.pc = IF Rejected(payload) THEN "read" ELSE "render",
                        !.job = IF Rejected(payload) THEN NoJob
                                ELSE [n  |-> IF build = "pdf" THEN payload.orders
                                             ELSE Copies(payload),
                                      i  |-> 0,
                                      id |-> payload.orderId,
                                      copies |-> payload.copies,
                                      content |-> payload.content]]]
    /\ UNCHANGED <<regVars, mainVars, build, rasterVars, ioVars>>

\* where the order loop of the PDF build goes after order number i (0-based)
AfterOrder(a) == IF sess[a].job.i + 1 < sess[a].job.n THEN "render" ELSE "read"

\* an order loop that goes on to the transmission after a failed rendering
PdfRender_SendAnyway(a) ==
    /\ build = "pdf"
    /\ sess[a].pc = "render"
    /\ \E ok \in BOOLEAN :
          sess' = [sess EXCEPT ![a] =
              [@ EXCEPT !.trace = Log(a, Ev("render", "pdf", "", ok, "none")),
                        !.pc = "send"]]
    /\ UNCHANGED <<regVars, mainVars, build, rasterVars, ioVars>>

\* ws.go:117-124  generateOrderPDF for the next order; on error continue
PdfRender(a) ==
    /\ build = "pdf"
    /\ sess[a].pc = "render"
    /\ \E ok \in BOOLEAN :
          sess' = [sess EXCEPT ![a] =
              [@ EXCEPT !.trace = Log(a, Ev("render", "pdf", "", ok, "none")),
                        !.pc = IF ok THEN "send" ELSE AfterOrder(a),
                        !.job = IF ok THEN @
                                ELSE IF AfterOrder(a) = "read" THEN NoJob
                                ELSE [@ EXCEPT !.i = @ + 1]]]
    /\ UNCHANGED <<regVars, mainVars, build, rasterVars, ioVars>>

(* sendFileToPrinter *)

\* part_001:625-644  the sink the dispatcher picks for a (normalised) type
SendFileToPrinter(ptype) ==
    CASE ptype = "thermal" -> "thermal"
      [] ptype \in {"inkjet", "laser"} -> "system"
      [] ptype = "" -> "thermal"
      [] OTHER -> "unsupported"

\* what one call of sendFileToPrinter can do: ok tells whether it returned nil,
\* io the sink it was routed to ("none": no sink, the type is unsupported)
\*   ws.go:258-281         read the file, dial the printer, write
\*   part_001:647-702      open and decode the PNG, convert, dial, write
\*   part_001:705-754      run the spooler command
\*   part_001:642-643      unsupported type: an error, nothing else
SendOutcomes(a) ==
    LET sink == IF build = "pdf" THEN "thermal" ELSE SendFileToPrinter(sess[a].ptype)
    IN  CASE sink = "thermal" ->
               {[ok |-> TRUE, io |-> "socket"], [ok |-> FALSE, io |-> "socket"]}
          [] sink = "system" ->
               {[ok |-> TRUE, io |-> "spooler"], [ok |-> FALSE, io |-> "spooler"]}
          [] OTHER -> {[ok |-> FALSE, io |-> "none"]}

\* the history entry of one call of sendFileToPrinter
Sent(out) == Ev("send", "printer", "", out.ok, out.io)

\* ws.go:126-154  sendFileToPrinter and the result message of one order
PdfSend(a) ==
    /\ build = "pdf"
    /\ sess[a].pc = "send"
    /\ \E out \in SendOutcomes(a), wrote \in BOOLEAN :
          LET key == agentP[a].AgentKey
              sent == out.ok
              io  == Log(a, Sent(out))
              returns == sent /\ ~wrote
              next == IF returns THEN "read" ELSE AfterOrder(a)
          IN  sess' = [sess EXCEPT ![a] =
                  [@ EXCEPT
                     !.trace =
                        IF ~sent
                        THEN io \o <<Wrote("print_failed", key, wrote, "error")>>
                        ELSE IF ~wrote
                        THEN io \o <<Wrote("printed", key, FALSE, "none")>>
                        ELSE io \o <<Wrote("printed", key, TRUE, "none"),
                                     Ev("remove", "tmp", "", TRUE, "none")>>,
                     !.pc = next,
                     !.job = IF next = "read" THEN NoJob ELSE [@ EXCEPT !.i = @ + 1]]]
    /\ UNCHANGED <<regVars, mainVars, build, rasterVars, ioVars>>

\* the message types of part_001: a WSMessage has no order id,
\* a WSMessageTypePrintFailed carries OrderID
WSMessage(type, key, ok, hasError) ==
    Wrote(type, key, ok, IF hasError THEN "error" ELSE "none")

WSMessageTypePrintFailed(key, ok) == Wrote("print_failed", key, ok, "error+orderId")

\* where the copies loop starts: for i := 0; i < copies
LoopEntry(a) == IF 0 < sess[a].job.n THEN "send" ELSE "printed"

\* a render failure that is reported without returning from handlePrintJob
ImgRender_NoReturn(a) ==
    /\ build = "img"
    /\ sess[a].pc = "render"
    /\ \E ok \in BOOLEAN, wrote \in BOOLEAN :
          /\ ok => wrote
          /\ sess' = [sess EXCEPT ![a] =
              [@ EXCEPT
                 !.trace =
                    IF ok THEN Log(a, Ev("render", "png", "", TRUE, "none"))
                    ELSE Log(a, Ev("render", "png", "", FALSE, "none"))
                         \o <<WSMessage("print_failed", agentP[a].AgentKey, wrote, TRUE)>>,
                 !.pc = LoopEntry(a)]]
    /\ UNCHANGED <<regVars, mainVars, build, rasterVars, ioVars>>

\* part_001:515-531  generateOrderImage; on error print_failed and return
ImgRender(a) ==
    /\ build = "img"
    /\ sess[a].pc = "render"
    /\ \E ok \in BOOLEAN, wrote \in BOOLEAN :
          /\ ok => wrote
          /\ sess' = [sess EXCEPT ![a] =
              [@ EXCEPT
                 !.trace =
                    IF ok THEN Log(a, Ev("render", "png", "", TRUE, "none"))
                    ELSE Log(a, Ev("render", "png", "", FALSE, "none"))
                         \o <<WSMessage("print_failed", agentP[a].AgentKey, wrote, TRUE)>>,
                 !.pc = IF ok THEN LoopEntry(a) ELSE "read",
                 !.job = IF ok THEN @ ELSE NoJob]]
    /\ UNCHANGED <<regVars, mainVars, build, rasterVars, ioVars>>

\* a copies loop that reports a failed copy and goes on with the next one
ImgSend_Continue(a) ==
    /\ build = "img"
    /\ sess[a].pc = "send"
    /\ \E out \in SendOutcomes(a), wrote \in BOOLEAN :
          /\ out.ok => wrote
          /\ sess' = [sess EXCEPT ![a] =
              [@ EXCEPT
                 !.trace =
                    IF out.ok THEN Log(a, Sent(out))
                    ELSE Log(a, Sent(out))
                         \o <<WSMessageTypePrintFailed(agentP[a].AgentKey, wrote)>>,
                 !.pc = IF sess[a].job.i + 1 < sess[a].job.n THEN "send"
                        ELSE IF out.ok THEN "printed"
                        ELSE "cleanup",
                 !.job = [@ EXCEPT !.i = @ + 1]]]
    /\ UNCHANGED <<regVars, mainVars, build, rasterVars, ioVars>>

\* part_001:534-550  one iteration of the copies loop
ImgSend(a) ==
    /\ build = "img"
    /\ sess[a].pc = "send"
    /\ \E out \in SendOutcomes(a), wrote \in BOOLEAN :
          /\ out.ok => wrote
          /\ sess' = [sess EXCEPT ![a] =
              [@ EXCEPT
                 !.trace =
                    IF out.ok THEN Log(a, Sent(out))
                    ELSE Log(a, Sent(out))
                         \o <<WSMessageTypePrintFailed(agentP[a].AgentKey, wrote)>>,
                 !.pc = IF ~out.ok THEN "cleanup"
                        ELSE IF sess[a].job.i + 1 < sess[a].job.n THEN "send"
                        ELSE "printed",
                 !.job = [@ EXCEPT !.i = @ + 1]]]
    /\ UNCHANGED <<regVars, mainVars, build, rasterVars, ioVars>>

\* part_001:552-561  every copy was sent: write printed
ImgPrinted(a) ==
    /\ build = "img"
    /\ sess[a].pc = "printed"
    /\ \E wrote \in BOOLEAN :
          sess' = [sess EXCEPT ![a] =
              [@ EXCEPT !.trace = Log(a, WSMessage("printed", agentP[a].AgentKey, wrote, FALSE)),
                        !.pc = "cleanup"]]
    /\ UNCHANGED <<regVars, mainVars, build, rasterVars, ioVars>>

\* part_001:563-568  os.Remove(imgPath), then back to the read loop
ImgCleanup(a) ==
    /\ build = "img"
    /\ sess[a].pc = "cleanup"
    /\ sess' = [sess EXCEPT ![a] =
          [@ EXCEPT !.trace = Log(a, Ev("remove", "tmp", "", TRUE, "none")),
                    !.pc = "read",
                    !.job = NoJob]]
    /\ UNCHANGED <<regVars, mainVars, build, rasterVars, ioVars>>

(* one session, driven by its backend endpoint *)

\* the endpoint of the reconnect test: rejects twice, then accepts
RejectTwice == <<FALSE, FALSE, TRUE>>

\* the (normalised) Type values of the printers job handling is explored with
PrinterTypes == {"thermal", "inkjet", "laser", "", "dotmatrix"}

\* the agents of the single-session specification
SessionAgents == {1}

SessionInit ==
    /\ file = NoFile
    /\ incoming = <<>>
    /\ saveErr = FALSE
    /\ prevFile = file
    /\ mpc = "running"
    /\ \E p \in Printer :
          /\ p.AgentKey # ""
          /\ p.IP = "10.0.0.5"
          /\ p.Size = 384
          /\ printers = <<p>>
          /\ agentP = <<p>>
    /\ idx = 2
    /\ dirty = FALSE
    /\ issued = {}
    /\ build \in Builds
    /\ \E script \in {<<>>, RejectTwice} :
          sess = <<[NewSession(script) EXCEPT !.ptype = "thermal"]>>
    /\ RasterIdle

SessionNext ==
    \/ \E a \in Agents : RunAgentDial(a)
    \/ \E a \in Agents : RunAgentRetrySleep(a)
    \/ \E a \in Agents : HandleConnectionRegister(a)
    \/ \E a \in Agents : HandleReadError(a)
    \/ \E a \in Agents : HandleRegistered(a)
    \/ \E a \in Agents : HandlePing(a)
    \/ \E a \in Agents : HandlePrintOrder(a)
    \/ \E a \in Agents : HandleUnregister(a)
    \/ \E a \in Agents : HandleUnknown(a)
    \/ \E a \in Agents : PdfRender(a)
    \/ \E a \in Agents : PdfSend(a)
    \/ \E a \in Agents : ImgRender(a)
    \/ \E a \in Agents : ImgSend(a)
    \/ \E a \in Agents : ImgPrinted(a)
    \/ \E a \in Agents : ImgCleanup(a)
    \/ \E a \in Agents : RunAgentClose(a)
    \/ \E a \in Agents : RunAgentReconnectSleep(a)

\* the steps of RunAgent that never block: the dial returns (connected or
\* not), the sleeps elapse, the register write and the close return
SessionFairness ==
    \A a \in SessionAgents :
        /\ WF_vars(RunAgentDial(a))
        /\ WF_vars(RunAgentRetrySleep(a))
        /\ WF_vars(HandleConnectionRegister(a))
        /\ WF_vars(RunAgentClose(a))
        /\ WF_vars(RunAgentReconnectSleep(a))

SpecSession == SessionInit /\ [][SessionNext]_vars /\ SessionFairness

(* one session with a printer of any type: the handling of print jobs *)

DispatchInit ==
    /\ file = NoFile
    /\ incoming = <<>>
    /\ saveErr = FALSE
    /\ prevFile = file
    /\ mpc = "running"
    /\ \E p \in Printer :
          /\ p.AgentKey # ""
          /\ p.IP = "10.0.0.5"
          /\ p.Size = 384
          /\ printers = <<p>>
          /\ agentP = <<p>>
    /\ idx = 2
    /\ dirty = FALSE
    /\ issued = {}
    /\ build \in Builds
    /\ \E ptype \in PrinterTypes :
          sess = <<[NewSession(<<>>) EXCEPT !.ptype = ptype]>>
    /\ RasterIdle

SpecDispatch == DispatchInit /\ [][SessionNext]_vars

(***************************************************************************)
(* services.RegisterPrinterOnServer                                        *)
(***************************************************************************)
\* what the backend can answer to POST /api/printers
Responses ==
    [transport : {"ok", "failed"},
     status    : {200, 400},
     shape     : {"notjson", "nokey", "envelope"},
     key       : Keys]

\* a registration that decodes the body whatever the status is
RegisterPrinterOnServer_AnyStatus(p, resp) ==
    IF resp.transport = "failed" THEN [err |-> TRUE, p |-> p]
    ELSE IF resp.shape = "notjson" THEN [err |-> TRUE, p |-> p]
    ELSE IF resp.shape = "envelope"
         THEN [err |-> FALSE, p |-> [p EXCEPT !.AgentKey = resp.key]]
    ELSE [err |-> TRUE, p |-> p]

\* the error (TRUE/FALSE) and the printer after RegisterPrinterOnServer(&p)
RegisterPrinterOnServer(p, resp) ==
    IF resp.transport = "failed" THEN [err |-> TRUE, p |-> p]
    ELSE IF resp.status >= 400 THEN [err |-> TRUE, p |-> p]
    ELSE IF resp.shape = "notjson" THEN [err |-> TRUE, p |-> p]
    ELSE IF resp.shape = "envelope"
         THEN [err |-> FALSE, p |-> [p EXCEPT !.AgentKey = resp.key]]
    ELSE [err |-> TRUE, p |-> p]

(***************************************************************************)
(* cmd/main.go: the supervisor's start-up sequence                         *)
(***************************************************************************)
\* SavePrinters as main calls it: the returned error is ignored
SavePrintersCall(ps) == SavePrintersOk(ps) \/ SavePrintersErr(ps)

\* what DiscoverPrinters can return: nil, or the confirmed hosts, each once
Discovered ==
    {ps \in SeqsUpTo({[IP |-> ip, AgentKey |-> "", Size |-> 0] : ip \in IPs},
                     Cardinality(IPs)) : UniqueIPs(ps)}

MainInit ==
    /\ file \in InitialFiles
    /\ incoming = <<>>
    /\ saveErr = FALSE
    /\ prevFile = file
    /\ mpc = "sync"
    /\ printers = <<>>
    /\ idx = 1
    /\ dirty = FALSE
    /\ issued = {}
    /\ agentP = <<>>
    /\ build = "img"
    /\ sess = <<>>
    /\ RasterIdle

\* main.go:52-58  sync the printers of the backend into the registry
MainSync ==
    /\ mpc = "sync"
    /\ \E serverPrinters \in Batches(file) : SavePrintersCall(serverPrinters)
    /\ mpc' = "load"
    /\ UNCHANGED <<printers, idx, dirty, issued, agentP, sessVars, rasterVars, ioVars>>

\* main.go:60-64  load the registry; a load error starts fresh
MainLoad ==
    /\ mpc = "load"
    /\ \/ printers' = LoadPrinters(file)
       \/ printers' = <<>>
    /\ mpc' = "discover"
    /\ UNCHANGED <<regVars, idx, dirty, issued, agentP, sessVars, rasterVars, ioVars>>

\* main.go:66-72  discovery when nothing is configured
MainDiscover ==
    /\ mpc = "discover"
    /\ IF Len(printers) = 0
       THEN \E newPrinters \in Discovered :
               /\ printers' = printers \o newPrinters
               /\ SavePrintersCall(printers')
       ELSE UNCHANGED <<printers, regVars>>
    /\ mpc' = "register"
    /\ idx' = 1
    /\ UNCHANGED <<dirty, issued, agentP, sessVars, rasterVars, ioVars>>

\* main.go:76-87  one iteration of the registration loop
MainRegister ==
    /\ mpc = "register"
    /\ idx <= Len(printers)
    /\ IF printers[idx].AgentKey = ""
       THEN \E resp \in Responses :
               LET r == RegisterPrinterOnServer(printers[idx], resp)
               IN  /\ printers' = [printers EXCEPT ![idx] = r.p]
                   /\ dirty' = (dirty \/ ~r.err)
                   /\ issued' = IF r.err THEN issued ELSE issued \cup {idx}
       ELSE UNCHANGED <<printers, dirty, issued>>
    /\ idx' = idx + 1
    /\ UNCHANGED <<regVars, mpc, agentP, sessVars, rasterVars, ioVars>>

\* main.go:88-90  persist the issued credentials
MainSave ==
    /\ mpc = "register"
    /\ idx > Len(printers)
    /\ IF dirty THEN SavePrintersCall(printers) ELSE UNCHANGED regVars
    /\ mpc' = "start"
    /\ UNCHANGED <<printers, idx, dirty, issued, agentP, sessVars, rasterVars, ioVars>>

\* a start loop that runs an agent for every printer of the list
Credentialed_All(ps) == 1..Len(ps)

\* the indexes of the printers main starts an agent for
Credentialed(ps) == {i \in 1..Len(ps) : ps[i].AgentKey # ""}

\* main.go:92-113  start one RunAgent goroutine per credentialed printer
MainStart ==
    /\ mpc = "start"
    /\ agentP' = [i \in Credentialed(printers) |-> printers[i]]
    /\ sess' = [i \in Credentialed(printers) |-> NewSession(<<>>)]
    /\ mpc' = IF Credentialed(printers) = {} THEN "exit" ELSE "running"
    /\ UNCHANGED <<regVars, printers, idx, dirty, issued, build, rasterVars, ioVars>>

MainNext ==
    \/ MainSync
    \/ MainLoad
    \/ MainDiscover
    \/ MainRegister
    \/ MainSave
    \/ MainStart

SpecMain == MainInit /\ [][MainNext]_vars

(***************************************************************************)
(* cmd/main.go:92-120: the agents of two printers running, and the         *)
(* interrupt                                                               *)
(***************************************************************************)
\* two registered printers, each with the credential the backend issued it
SupervisedPrinters ==
    <<[IP |-> "10.0.0.5", AgentKey |-> "k1", Size |-> 384],
      [IP |-> "10.0.0.7", AgentKey |-> "k2", Size |-> 384]>>

\* main.go:96-113 done: one RunAgent goroutine per printer has been started
SuperviseInit ==
    /\ file = NoFile
    /\ incoming = <<>>
    /\ saveErr = FALSE
    /\ prevFile = file
    /\ mpc = "running"
    /\ printers = SupervisedPrinters
    /\ agentP = SupervisedPrinters
    /\ idx = Len(printers) + 1
    /\ dirty = FALSE
    /\ issued = {}
    /\ build = "img"
    /\ sess = [a \in DOMAIN SupervisedPrinters |->
                 [NewSession(<<>>) EXCEPT !.ptype = "thermal"]]
    /\ RasterIdle

\* main.go:115-120  the signal arrives: main prints "Shutting down..." and
\* returns without waiting for wg, which ends the process and with it every
\* goroutine at the position it has reached
MainShutdown ==
    /\ mpc = "running"
    /\ mpc' = "exited"
    /\ sess' = [a \in DOMAIN sess |-> [sess[a] EXCEPT !.pc = "killed"]]
    /\ UNCHANGED <<regVars, printers, idx, dirty, issued, agentP, build, rasterVars, ioVars>>

\* the steps of the agents of the image build, and the signal
SuperviseNext ==
    \/ \E a \in Agents : RunAgentDial(a)
    \/ \E a \in Agents : RunAgentRetrySleep(a)
    \/ \E a \in Agents : HandleConnectionRegister(a)
    \/ \E a \in Agents : HandleReadError(a)
    \/ \E a \in Agents : HandleRegistered(a)
    \/ \E a \in Agents : HandlePing(a)
    \/ \E a \in Agents : HandlePrintOrder(a)
    \/ \E a \in Agents : HandleUnregister(a)
    \/ \E a \in Agents : HandleUnknown(a)
    \/ \E a \in Agents : ImgRender(a)
    \/ \E a \in Agents : ImgSend(a)
    \/ \E a \in Agents : ImgPrinted(a)
    \/ \E a \in Agents : ImgCleanup(a)
    \/ \E a \in Agents : RunAgentClose(a)
    \/ \E a \in Agents : RunAgentReconnectSleep(a)
    \/ MainShutdown

SpecSupervise == SuperviseInit /\ [][SuperviseNext]_vars

(***************************************************************************)
(* services.convertImageToESCPOS (src/unnamed/part_001, lines 757-798)     *)
(***************************************************************************)
\* largest bitmap width and height the conversion is explored with
MaxWidth == 17
MaxHeight == 2

\* what Color.RGBA() returns for a pixel: 16-bit R, G, B (alpha-premultiplied)
Colours ==
    <<  <<0, 0, 0>>,                 \* black, and any fully transparent pixel
        <<65535, 65535, 65535>>,     \* white
        <<32768, 32768, 32767>>,     \* grey a third below the midpoint
        <<32768, 32768, 32768>>,     \* grey at the midpoint
        <<65535, 0, 0>>,             \* red
        <<65535, 65535, 0>>  >>      \* yellow

\* the pixel positions of a w x h bitmap whose bounds start at (0, 0), as
\* those of png.Decode and resizeToWidth do
Pixels(w, h) == (0..(w - 1)) \X (0..(h - 1))

\* the w x h bitmap whose pixel (x, y) has colour number (a*x + b*y + c) mod 6
Pattern(w, h, a, b, c) ==
    [w  |-> w,
     h  |-> h,
     px |-> [xy \in Pixels(w, h) |->
                Colours[((a * xy[1] + b * xy[2] + c) % Len(Colours)) + 1]]]

\* the bitmaps the conversion is explored with
Bitmaps ==
    {Pattern(w, h, a, b, c) :
        w \in 0..MaxWidth, h \in 0..MaxHeight, a \in 0..2, b \in 0..2,
        c \in 0..(Len(Colours) - 1)}

\* img.At(x, y).RGBA(): outside the bounds the zero colour
At(im, x, y) == IF <<x, y>> \in DOMAIN im.px THEN im.px[<<x, y>>] ELSE <<0, 0, 0>>

\* a width that is rounded up to a multiple of 8 instead
TruncatedWidth_RoundUp(width) ==
    IF width % 8 # 0 THEN width + (8 - (width % 8)) ELSE width

\* part_001:762-765  the width is cut down to a multiple of 8
TruncatedWidth(width) ==
    IF width % 8 # 0 THEN width - (width % 8) ELSE width

\* the midpoint of the 16-bit range
Threshold == 32768

\* part_001:772-778  gray := (r + g + b) / 3; the bit is 1 when gray < 0x8000
Bit(colour) ==
    LET gray == (colour[1] + colour[2] + colour[3]) \div 3
    IN  IF gray < Threshold THEN 1 ELSE 0

\* a packing that puts the leftmost pixel in the lowest bit
BitPos_LSBFirst(x) == x % 8

\* part_001:781  bitPos := 7 - (x % 8)
BitPos(x) == 7 - (x % 8)

\* v | mask, for a mask with a single bit set
BitOr(v, mask) == IF (v \div mask) % 2 = 1 THEN v ELSE v + mask

\* part_001:772-787  the inner loop over the pixels x..last of row y, all of
\* which set bits of the same raster byte, whose value so far is v
RECURSIVE OrPixels(_, _, _, _, _)
OrPixels(im, v, y, x, last) ==
    IF x > last THEN v
    ELSE OrPixels(im,
                  IF Bit(At(im, x, y)) = 1 THEN BitOr(v, 2 ^ BitPos(x)) ELSE v,
                  y, x + 1, last)

\* part_001:768-788  the raster the two loops leave: byte byteIndex, zero at
\* first, collects the pixels of row byteIndex / rowBytes whose x/8 is
\* byteIndex % rowBytes
Rasterize(im, width) ==
    LET rowBytes == width \div 8
    IN  [byteIndex \in 0..(rowBytes * im.h - 1) |->
            OrPixels(im, 0, byteIndex \div rowBytes,
                     8 * (byteIndex % rowBytes), 8 * (byteIndex % rowBytes) + 7)]

\* byte(v)
Byte(v) == v % 256

\* a header with the two 16-bit fields written high byte first
Header_BigEndian(rowBytes, height) ==
    <<29, 118, 48, 0,
      Byte(rowBytes \div 256), Byte(rowBytes),
      Byte(height \div 256), Byte(height)>>

\* part_001:791-795  GS v 0, mode 0, rowBytes and height low byte first
Header(rowBytes, height) ==
    <<29, 118, 48, 0,
      Byte(rowBytes), Byte(rowBytes \div 256),
      Byte(height), Byte(height \div 256)>>

\* part_001:757-798  the bytes convertImageToESCPOS returns
ConvertImageToESCPOS(im) ==
    LET width    == TruncatedWidth(im.w)
        height   == im.h
        rowBytes == width \div 8
        raster   == Rasterize(im, width)
    IN  Header(rowBytes, height) \o [k \in 1..(rowBytes * height) |-> raster[k - 1]]

\* a bitmap is about to be converted; nothing else of the agent runs
RasterInit ==
    /\ file = NoFile
    /\ incoming = <<>>
    /\ saveErr = FALSE
    /\ prevFile = file
    /\ mpc = "idle"
    /\ printers = <<>>
    /\ idx = 1
    /\ dirty = FALSE
    /\ issued = {}
    /\ agentP = <<>>
    /\ build = "img"
    /\ sess = <<>>
    /\ img \in Bitmaps
    /\ escpos = NotConverted
    /\ thermal = NotSent
    /\ route = NotRouted
    /\ scan = NotScanning

\* part_001:664  escposData, err := convertImageToESCPOS(img)
ConvertImage ==
    /\ ~escpos.done
    /\ escpos' = [done |-> TRUE, data |-> ConvertImageToESCPOS(img)]
    /\ UNCHANGED <<regVars, mainVars, sessVars, img, ioVars>>

RasterNext == ConvertImage

SpecRaster == RasterInit /\ [][RasterNext]_vars

(***************************************************************************)
(* services.sendToThermalPrinter (src/unnamed/part_001, lines 647-702)     *)
(* and services.resizeToWidth (lines 801-820)                              *)
(***************************************************************************)
\* part_001:663  the width every thermal bitmap is resized to
ThermalWidth == 384

\* the configured raster widths (Printer.Size) of the thermal printers explored
ThermalSizes == {384, DefaultSize}

\* widths of the decoded PNGs explored; for each of them
\* float64(targetWidth)/float64(w) is an exact binary fraction, so the
\* float64 products and quotients of resizeToWidth are the exact ones
SourceWidths == {192, 384, 768}

\* the bitmaps png.Decode returns for the files explored
ThermalSources ==
    {Pattern(w, h, a, 1, c) : w \in SourceWidths, h \in 1..MaxHeight, a \in {1, 2}, c \in {0, 3}}

\* part_001:815  dst.Set stores 8 bits per channel; RGBA() widens them again
Stored(colour) == [k \in 1..3 |-> (colour[k] \div 256) * 257]

\* part_001:801-820  nearest-neighbour resize to targetWidth
ResizeToWidth(src, targetWidth) ==
    LET w == src.w
        h == src.h
        newHeight == (h * targetWidth) \div w
    IN  [w  |-> targetWidth,
         h  |-> newHeight,
         px |-> [xy \in Pixels(targetWidth, newHeight) |->
                    Stored(At(src, (xy[1] * w) \div targetWidth,
                                   (xy[2] * w) \div targetWidth))]]

\* a print job that is not preceded by the reset command
PrintJob_NoReset(escposData) ==
    escposData \o <<27, 100, 3>> \o <<29, 86, 65, 0>>

\* part_001:671-682  ESC @, the image data, ESC d 3, GS V A 0
PrintJob(escposData) ==
    <<27, 64>> \o escposData \o <<27, 100, 3>> \o <<29, 86, 65, 0>>

\* a decoded PNG is about to be sent to a thermal printer of some raster width
ThermalInit ==
    /\ file = NoFile
    /\ incoming = <<>>
    /\ saveErr = FALSE
    /\ prevFile = file
    /\ mpc = "idle"
    /\ printers = <<>>
    /\ idx = 1
    /\ dirty = FALSE
    /\ issued = {}
    /\ agentP = <<>>
    /\ build = "img"
    /\ sess = <<>>
    /\ img \in ThermalSources
    /\ escpos = NotConverted
    /\ \E size \in ThermalSizes : thermal = [NotSent EXCEPT !.size = size]
    /\ route = NotRouted
    /\ scan = NotScanning

\* what the call leaves behind when it returns before dialling
ReturnedEarly(err) == [thermal EXCEPT !.called = TRUE, !.err = err]

\* what the call leaves behind once it dialled: the deferred Close has run
Dialled(err, writes, wire) ==
    [thermal EXCEPT !.called = TRUE, !.err = err, !.dials = 1,
                    !.writes = writes, !.closed = (err # "dial"), !.wire = wire]

\* part_001:647-702  one call of sendToThermalPrinter, with each outcome of
\* os.Open, png.Decode, net.DialTimeout and conn.Write
SendToThermalPrinter ==
    /\ ~thermal.called
    /\ LET resized    == ResizeToWidth(img, ThermalWidth)
           escposData == ConvertImageToESCPOS(resized)
           printJob   == PrintJob(escposData)
       IN  \/ /\ \E err \in {"open", "decode"} : thermal' = ReturnedEarly(err)
              /\ UNCHANGED <<img, escpos>>
           \/ /\ img' = resized
              /\ escpos' = [done |-> TRUE, data |-> escposData]
              /\ \/ thermal' = Dialled("dial", 0, <<>>)
                 \/ \E n \in 0..(Len(printJob) - 1) :
                        thermal' = Dialled("write", 1, SubSeq(printJob, 1, n))
                 \/ thermal' = Dialled("", 1, printJob)
    /\ UNCHANGED <<regVars, mainVars, sessVars, route, scan>>

ThermalNext == SendToThermalPrinter

SpecThermal == ThermalInit /\ [][ThermalNext]_vars

(***************************************************************************)
(* services.sendFileToPrinter and sendToSystemPrinter                      *)
(* (src/unnamed/part_001, lines 625-644 and 705-754)                       *)
(* A Go string is the sequence of its characters.                          *)
(***************************************************************************)
\* the type strings, trimmed and in lower case
StrThermal == <<"t", "h", "e", "r", "m", "a", "l">>
StrInkjet == <<"i", "n", "k", "j", "e", "t">>
StrLaser == <<"l", "a", "s", "e", "r">>
StrDotMatrix == <<"d", "o", "t", "m", "a", "t", "r", "i", "x">>

\* other spellings a printers file can hold in the type field
StrThermalPadded == <<" ", "T", "h", "e", "r", "m", "a", "l", "\n">>
StrThermalUpper == <<"T", "H", "E", "R", "M", "A", "L">>
StrInkjetMixed == <<"I", "n", "k", "J", "e", "t", " ">>
StrLaserPadded == <<"\t", "L", "A", "S", "E", "R">>
StrBlank == <<" ", " ">>
StrThermalSplit == <<"t", "h", "e", "r", " ", "m", "a", "l">>

\* the values of Printer.Type explored
RawTypes ==
    {<<>>, StrBlank, StrThermal, StrThermalPadded, StrThermalUpper, StrInkjet,
     StrInkjetMixed, StrLaser, StrLaserPadded, StrDotMatrix, StrThermalSplit}

\* unicode.IsSpace, for the characters explored
IsSpace(ch) == ch \in {" ", "\t", "\n"}

\* unicode.ToLower, for the characters explored
LowerOf(ch) ==
    CASE ch = "A" -> "a" [] ch = "E" -> "e" [] ch = "H" -> "h" [] ch = "I" -> "i"
      [] ch = "J" -> "j" [] ch = "K" -> "k" [] ch = "L" -> "l" [] ch = "M" -> "m"
      [] ch = "N" -> "n" [] ch = "R" -> "r" [] ch = "S" -> "s" [] ch = "T" -> "t"
      [] OTHER -> ch

\* strings.ToLower
ToLower(str) == [i \in 1..Len(str) |-> LowerOf(str[i])]

\* a normalisation that keeps surrounding white space
TrimSpace_Keep(str) == str

\* strings.TrimSpace: leading and trailing white space is cut off
TrimSpace(str) ==
    LET inked == {i \in 1..Len(str) : ~IsSpace(str[i])}
    IN  IF inked = {} THEN <<>>
        ELSE SubSeq(str, CHOOSE i \in inked : \A j \in inked : i <= j,
                         CHOOSE i \in inked : \A j \in inked : i >= j)

\* part_001:627  printerType, as the value of ptype the switch compares
PrinterType(type) ==
    LET printerType == ToLower(TrimSpace(type))
    IN  CASE printerType = StrThermal -> "thermal"
          [] printerType = StrInkjet -> "inkjet"
          [] printerType = StrLaser -> "laser"
          [] printerType = <<>> -> ""
          [] OTHER -> "dotmatrix"

\* the values of runtime.GOOS explored, and of Printer.Name
OperatingSystems == {"darwin", "linux", "windows", "freebsd"}
Names == {"", "Kitchen"}

\* the rendered file handed to the sink
FilePath == "tmp.png"

\* an argument of the command that is a plain string
Arg(str) == <<str>>

\* part_001:717,728  fmt.Sprintf("ipp://%s/ipp/print", p.IP), as the pieces
\* it is formatted from
IppURI(ip) == <<"ipp://", ip, "/ipp/print">>

\* part_001:708-744  the command sendToSystemPrinter builds; <<>> when it
\* returns an error instead
SystemCommand(goos, name, ip) ==
    CASE goos = "darwin" ->
           IF name # "" THEN <<Arg("lpr"), Arg("-P"), Arg(name), Arg(FilePath)>>
           ELSE <<Arg("lpr"), Arg("-H"), Arg(ip), Arg(FilePath)>>
      [] goos = "linux" ->
           IF name # "" THEN <<Arg("lp"), Arg("-d"), Arg(name), Arg(FilePath)>>
           ELSE <<Arg("lp"), Arg("-d"), IppURI(ip), Arg(FilePath)>>
      [] goos = "windows" ->
           IF name # "" THEN <<Arg("mspaint.exe"), Arg("/pt"), Arg(FilePath), Arg(name)>>
           ELSE <<>>
      [] OTHER -> <<>>

\* part_001:739,743  the error returned when no command is built
SystemCommandError(goos) ==
    IF goos = "windows" THEN "printer name required" ELSE "unsupported operating system"

\* a printer of some type and name is about to be sent a file, on some platform
RouteInit ==
    /\ file = NoFile
    /\ incoming = <<>>
    /\ saveErr = FALSE
    /\ prevFile = file
    /\ mpc = "idle"
    /\ printers = <<>>
    /\ idx = 1
    /\ dirty = FALSE
    /\ issued = {}
    /\ agentP = <<>>
    /\ build = "img"
    /\ sess = <<>>
    /\ img = NoImage
    /\ escpos = NotConverted
    /\ thermal = NotSent
    /\ \E type \in RawTypes, name \in Names, ip \in IPs, goos \in OperatingSystems :
          route = [NotRouted EXCEPT !.type = type, !.name = name, !.ip = ip,
                                    !.goos = goos]
    /\ scan = NotScanning

\* what a call leaves behind: the sink it called, the spooler command it
\* ran, the error it returned
Routed(sink, cmd, err) ==
    [route EXCEPT !.called = TRUE, !.sink = sink, !.cmd = cmd, !.err = err]

\* part_001:625-644, 705-754  one call of sendFileToPrinter, with each
\* outcome of the sink it reaches
SendFileToPrinterCall ==
    /\ ~route.called
    /\ LET sink == SendFileToPrinter(PrinterType(route.type))
           cmd  == SystemCommand(route.goos, route.name, route.ip)
       IN  CASE sink = "thermal" ->
                  \E err \in {"", "send failed"} : route' = Routed("thermal", <<>>, err)
             [] sink = "system" /\ cmd # <<>> ->
                  \E err \in {"", "print command failed"} : route' = Routed("system", cmd, err)
             [] sink = "system" /\ cmd = <<>> ->
                  route' = Routed("none", <<>>, SystemCommandError(route.goos))
             [] OTHER ->
                  route' = Routed("none", <<>>, "unsupported printer type")
    /\ UNCHANGED <<regVars, mainVars, sessVars, rasterVars, thermal, scan>>

RouteNext == SendFileToPrinterCall

SpecRoute == RouteInit /\ [][RouteNext]_vars

(***************************************************************************)
(* services.DiscoverPrinters (src/internal/services/printers.go, 23-86)    *)
(* The /24 has 254 candidates, the pool 50 workers and each channel room   *)
(* for 256 addresses; the model keeps the order 50 < 254 <= 256 of these  *)
(* numbers at a smaller scale.                                             *)
(***************************************************************************)
\* workers of the pool (50 in the source)
MaxWorkers == 2
\* candidate host numbers of the subnet (254 in the source)
MaxHosts == 3

\* a pool with one worker for every candidate
PoolSize_PerCandidate == MaxHosts

\* printers.go:37  the number of worker goroutines started
PoolSize == MaxWorkers

\* printers.go:49  the host numbers the producer enqueues
Hosts == 1..MaxHosts

\* channels with room for one address per worker only
Capacity_PerWorker == MaxWorkers

\* printers.go:33-34  the buffer of ipChan and of foundChan: two more than
\* the number of candidates (256 for 254)
Capacity == MaxHosts + 2

Workers == 1..PoolSize

\* a nil slice, and the slice holding the elements of a non-empty sequence
NilSlice == [nil |-> TRUE, items |-> <<>>]
SliceOf(items) == [nil |-> FALSE, items |-> items]

\* printers.go:59,82,85  newPrinters as returned: nil unless appended to
ReturnOf(accepted) == IF accepted = <<>> THEN NilSlice ELSE SliceOf(accepted)

\* DiscoverPrinters has been called and is about to detect the local address
ScanStart ==
    [pc          |-> "detect",
     self        |-> 0,
     next        |-> 1,
     ipChan      |-> <<>>,
     ipClosed    |-> FALSE,
     foundChan   |-> <<>>,
     foundCloses |-> 0,
     worker      |-> <<>>,
     closer      |-> "none",
     inflight    |-> 0,
     probed      |-> [h \in Hosts |-> 0],
     reported    |-> {},
     opened      |-> {},
     prompted    |-> {},
     newPrinters |-> <<>>,
     ret         |-> NilSlice]

ScanInit ==
    /\ file = NoFile
    /\ incoming = <<>>
    /\ saveErr = FALSE
    /\ prevFile = file
    /\ mpc = "idle"
    /\ printers = <<>>
    /\ idx = 1
    /\ dirty = FALSE
    /\ issued = {}
    /\ agentP = <<>>
    /\ build = "img"
    /\ sess = <<>>
    /\ img = NoImage
    /\ escpos = NotConverted
    /\ thermal = NotSent
    /\ route = NotRouted
    /\ scan = ScanStart

\* the rest of the program does not move during a scan
ScanOnly == UNCHANGED <<regVars, mainVars, sessVars, rasterVars, thermal, route>>

\* printers.go:24-28  DetectLocalIP failed: log and return nil
DetectFails ==
    /\ scan.pc = "detect"
    /\ scan' = [scan EXCEPT !.pc = "returned", !.ret = NilSlice]
    /\ ScanOnly

\* printers.go:24-47  the local address is one of the subnet; the channels
\* are made and the pool of workers is started
DetectAndStartPool ==
    /\ scan.pc = "detect"
    /\ \E self \in Hosts :
          scan' = [scan EXCEPT !.pc = "produce", !.self = self,
                               !.worker = [w \in Workers |-> [pc |-> "recv", ip |-> 0]]]
    /\ ScanOnly

\* printers.go:49-51  ipChan <- the next candidate; blocks while ipChan is full
Produce ==
    /\ scan.pc = "produce"
    /\ scan.next <= MaxHosts
    /\ Len(scan.ipChan) < Capacity
    /\ scan' = [scan EXCEPT !.ipChan = Append(@, scan.next), !.next = @ + 1]
    /\ ScanOnly

\* printers.go:52-60  close(ipChan), start the goroutine that waits for the
\* pool, and enter the loop over foundChan
CloseQueue ==
    /\ scan.pc = "produce"
    /\ scan.next > MaxHosts
    /\ scan' = [scan EXCEPT !.pc = "consume", !.ipClosed = TRUE, !.closer = "waiting"]
    /\ ScanOnly

\* printers.go:41-42, utils/printers.go:33-35  a worker receives the next
\* candidate from ipChan and Probe dials it
WorkerTake(w) ==
    /\ w \in DOMAIN scan.worker
    /\ scan.worker[w].pc = "recv"
    /\ scan.ipChan # <<>>
    /\ scan' = [scan EXCEPT !.ipChan = Tail(@),
                            !.worker[w] = [pc |-> "probe", ip |-> Head(scan.ipChan)],
                            !.inflight = @ + 1,
                            !.probed[Head(scan.ipChan)] = @ + 1]
    /\ ScanOnly

\* printers.go:40-41  ipChan is closed and drained: the range loop ends and
\* the deferred wg.Done runs
WorkerDone(w) ==
    /\ w \in DOMAIN scan.worker
    /\ scan.worker[w].pc = "recv"
    /\ scan.ipChan = <<>>
    /\ scan.ipClosed
    /\ scan' = [scan EXCEPT !.worker[w] = [pc |-> "done", ip |-> 0]]
    /\ ScanOnly

\* a worker that gives up at the first candidate that does not answer
ProbeReturn_StopOnFail(w) ==
    /\ w \in DOMAIN scan.worker
    /\ scan.worker[w].pc = "probe"
    /\ \E open \in BOOLEAN :
          scan' = [scan EXCEPT !.worker[w].pc = IF open THEN "report" ELSE "done",
                               !.opened = IF open THEN @ \cup {scan.worker[w].ip} ELSE @,
                               !.inflight = @ - 1]
    /\ ScanOnly

\* utils/printers.go:34-39  the dial of Probe returns: connected (the
\* connection is closed again) or failed within the timeout
ProbeReturn(w) ==
    /\ w \in DOMAIN scan.worker
    /\ scan.worker[w].pc = "probe"
    /\ \E open \in BOOLEAN :
          scan' = [scan EXCEPT !.worker[w].pc = IF open THEN "report" ELSE "recv",
                               !.opened = IF open THEN @ \cup {scan.worker[w].ip} ELSE @,
                               !.inflight = @ - 1]
    /\ ScanOnly

\* printers.go:43  foundChan <- ip; blocks while foundChan is full
WorkerReport(w) ==
    /\ w \in DOMAIN scan.worker
    /\ scan.worker[w].pc = "report"
    /\ Len(scan.foundChan) < Capacity
    /\ scan' = [scan EXCEPT !.foundChan = Append(@, scan.worker[w].ip),
                            !.reported = @ \cup {scan.worker[w].ip},
                            !.worker[w].pc = "recv"]
    /\ ScanOnly

\* printers.go:54-57  wg.Wait returns once every worker is done; close(foundChan)
CloseFound ==
    /\ scan.closer = "waiting"
    /\ \A w \in DOMAIN scan.worker : scan.worker[w].pc = "done"
    /\ scan' = [scan EXCEPT !.closer = "done", !.foundCloses = @ + 1]
    /\ ScanOnly

\* printers.go:62-84  the next found address is received and the operator
\* answers the prompt: y appends a printer, anything else does not
Consume ==
    /\ scan.pc = "consume"
    /\ scan.foundChan # <<>>
    /\ \E yes \in BOOLEAN :
          scan' = [scan EXCEPT !.foundChan = Tail(@),
                               !.prompted = @ \cup {Head(scan.foundChan)},
                               !.newPrinters = IF yes THEN Append(@, Head(scan.foundChan))
                                               ELSE @]
    /\ ScanOnly

\* printers.go:62,85  foundChan is closed and drained: return newPrinters
ScanReturn ==
    /\ scan.pc = "consume"
    /\ scan.foundChan = <<>>
    /\ scan.foundCloses > 0
    /\ scan' = [scan EXCEPT !.pc = "returned", !.ret = ReturnOf(scan.newPrinters)]
    /\ ScanOnly

ScanNext ==
    \/ DetectFails
    \/ DetectAndStartPool
    \/ Produce
    \/ CloseQueue
    \/ \E w \in Workers : WorkerTake(w)
    \/ \E w \in Workers : WorkerDone(w)
    \/ \E w \in Workers : ProbeReturn(w)
    \/ \E w \in Workers : WorkerReport(w)
    \/ CloseFound
    \/ Consume
    \/ ScanReturn

\* a goroutine that can run is run, and a dial returns within its timeout;
\* nothing is assumed of the operator answering the prompts
ScanFairness ==
    /\ WF_vars(Produce)
    /\ WF_vars(CloseQueue)
    /\ \A w \in Workers :
          /\ WF_vars(WorkerTake(w))
          /\ WF_vars(WorkerDone(w))
          /\ WF_vars(ProbeReturn(w))
          /\ WF_vars(WorkerReport(w))
    /\ WF_vars(CloseFound)

SpecScan == ScanInit /\ [][ScanNext]_vars /\ ScanFairness

(***************************************************************************)
(* Claims about the registry                                               *)
(***************************************************************************)
\* the records the latest successful SavePrinters call found and left
OldRecords == LoadPrinters(prevFile)
NowRecords == LoadPrinters(file)

\* how many records of ps carry the address ip
CountIP(ps, ip) == Cardinality({i \in 1..Len(ps) : ps[i].IP = ip})

\* the incoming printers whose address the registry did not hold
FreshIncoming == SelectSeq(incoming, LAMBDA p : p.IP \notin IPsOf(OldRecords))

\* C1: a successful SavePrinters leaves every record that was in the registry
\* exactly as it was (the raw persisted object and every decoded field), adds
\* no record for an incoming printer whose IP the registry already held, and
\* appends, in order, the incoming printers whose IP it did not hold.
C1_MergeKeepsExisting ==
    ~saveErr =>
        /\ Len(NowRecords) = Len(OldRecords) + Len(FreshIncoming)
        /\ \A i \in 1..Len(OldRecords) :
              /\ NowRecords[i] = OldRecords[i]
              /\ file.data[i] = prevFile.data[i]
        /\ \A ip \in IPsOf(OldRecords) : CountIP(NowRecords, ip) = CountIP(OldRecords, ip)
        /\ \A k \in 1..Len(FreshIncoming) :
              /\ NowRecords[Len(OldRecords) + k].IP = FreshIncoming[k].IP
              /\ NowRecords[Len(OldRecords) + k].AgentKey = FreshIncoming[k].AgentKey

\* C1 witness: a merge met an incoming printer with a registered IP but another
\* credential, and an incoming printer with a new IP
C1_Witness ==
    /\ ~saveErr
    /\ \E i \in 1..Len(incoming), j \in 1..Len(OldRecords) :
          /\ incoming[i].IP = OldRecords[j].IP
          /\ incoming[i].AgentKey # OldRecords[j].AgentKey
          /\ incoming[i].Size # OldRecords[j].Size
    /\ Len(FreshIncoming) > 0

\* C2 (as claimed): the persisted registry holds at most one Printer per IP
C2_OnePrinterPerIP == UniqueIPs(NowRecords)

\* C3 (as claimed): once main has saved the registry after issuing credentials,
\* every printer a credential was issued to is persisted with that credential
C3_IssuedCredentialPersisted ==
    (mpc \in {"start", "running", "exit"} /\ dirty /\ ~saveErr) =>
        \A i \in issued :
            (printers[i].AgentKey # "" /\ printers[i].IP \in IPsOf(OldRecords)) =>
                \E j \in 1..Len(NowRecords) :
                    /\ NowRecords[j].IP = printers[i].IP
                    /\ NowRecords[j].AgentKey = printers[i].AgentKey

(***************************************************************************)
(* Claims about the session loop                                           *)
(***************************************************************************)
\* positions of RunAgent at which its connection is open and registered
OpenPCs == {"read", "render", "send", "printed", "cleanup"}

\* positions of RunAgent after handleConnection returned or the dial failed
ClosedPCs == {"close", "reconnectsleep", "retrysleep", "dial"}

SessionPCs == OpenPCs \cup ClosedPCs \cup {"register"}

\* the session state of the specification, read off the goroutine's position
SessionState(a) ==
    IF sess[a].pc \in {"close", "reconnectsleep", "retrysleep"} THEN "Disconnected"
    ELSE IF sess[a].pc \in {"dial", "register"} THEN "Connecting"
    ELSE IF sess[a].acked THEN "Active"
    ELSE "AwaitingRegistrationAck"

Trace(a) == sess[a].trace

LastEvent(a) == Trace(a)[Len(Trace(a))]

\* this step appended events to the history of a, the first of them e
Appended(a, e) ==
    /\ Len(sess'[a].trace) > Len(sess[a].trace)
    /\ SubSeq(sess'[a].trace, 1, Len(sess[a].trace)) = sess[a].trace
    /\ sess'[a].trace[Len(sess[a].trace) + 1] = e

\* C4: RunAgent has no terminal position; the dial is entered only from one of
\* the two backoff sleeps (or at start); and, the non-blocking steps being
\* fair, every connect failure and every disconnect is followed by a new
\* connect attempt, whose outcome is again a connection or a failure.
C4_NeverGivesUp ==
    /\ [](\A a \in SessionAgents : sess[a].pc \in SessionPCs)
    /\ [][\A a \in SessionAgents :
            sess'[a].pc = "dial" =>
                sess[a].pc \in {"dial", "retrysleep", "reconnectsleep"}]_vars
    /\ \A a \in SessionAgents :
          (sess[a].pc \in {"retrysleep", "close", "reconnectsleep"}) ~> (sess[a].pc = "dial")
    /\ \A a \in SessionAgents :
          (sess[a].pc = "dial") ~> (sess[a].pc \in {"register", "retrysleep"})

\* C4 witness: the loop is back at the dial after two failed attempts and a
\* connection that ended with unregister, having slept at least four times
C4_Witness ==
    /\ sess[1].pc = "dial"
    /\ sess[1].backoffs >= 4
    /\ sess[1].ended = "unregister"

\* C5: against an endpoint that rejects the first two attempts and accepts the
\* third, the session is never connected before its third attempt, its first
\* connection is opened by exactly the third attempt after exactly two backoff
\* waits, the first thing on it is the register message, a registered frame
\* puts it in Active, and the goroutine stays inside the loop.
C5_ReconnectAfterTwoBackoffs ==
    \A a \in Agents :
        (sess[a].script = RejectTwice /\ sess[a].pc \in OpenPCs \cup {"register"}) =>
            /\ sess[a].attempts >= 3
            /\ sess[a].attempts = 3 =>
                  /\ sess[a].backoffs = 2
                  /\ sess[a].pc \in OpenPCs =>
                        /\ Trace(a)[1] = Wrote("register", agentP[a].AgentKey, TRUE, "none")
                        /\ (\E i \in 1..Len(Trace(a)) : Trace(a)[i] = ReadFrame("registered"))
                              => SessionState(a) = "Active"
            /\ sess[a].pc \in SessionPCs

\* C5 witness: the scripted session is Active on its first connection
C5_Witness ==
    /\ sess[1].script = RejectTwice
    /\ sess[1].attempts = 3
    /\ sess[1].backoffs = 2
    /\ sess[1].pc = "read"
    /\ SessionState(1) = "Active"

\* C6: the history of every connection starts with the write of a register
\* message carrying the printer's credential and holds no second one; nothing
\* is read or written before it; if that write failed nothing else happens on
\* the connection and the goroutine is on its way to reconnect.
C6_RegisterFirst ==
    \A a \in Agents :
        /\ sess[a].pc \in OpenPCs => Trace(a) # <<>>
        /\ sess[a].pc \in {"register", "dial", "retrysleep", "reconnectsleep"} =>
              Trace(a) = <<>>
        /\ Trace(a) # <<>> =>
              /\ Trace(a)[1].ev = "write"
              /\ Trace(a)[1].type = "register"
              /\ Trace(a)[1].key = agentP[a].AgentKey
              /\ \A i \in 2..Len(Trace(a)) :
                    ~(Trace(a)[i].ev = "write" /\ Trace(a)[i].type = "register")
              /\ ~Trace(a)[1].ok => (Len(Trace(a)) = 1 /\ sess[a].pc = "close")

\* C6 witness: a connection on which, after the register, a print_order was
\* read and a printed was written
C6_Witness ==
    /\ Len(Trace(1)) >= 3
    /\ Trace(1)[1] = Wrote("register", agentP[1].AgentKey, TRUE, "none")
    /\ Trace(1)[2] = ReadFrame("print_order")
    /\ \E i \in 3..Len(Trace(1)) : Trace(1)[i].ev = "write" /\ Trace(1)[i].type = "printed"

\* C7 (as claimed): every ping read is followed at once by exactly one pong
\* write that carries the credential the session registered with
C7_PongCarriesCredential ==
    \A a \in Agents :
        \A i \in 1..Len(Trace(a)) :
            Trace(a)[i] = ReadFrame("ping") =>
                /\ i + 1 <= Len(Trace(a))
                /\ Trace(a)[i + 1].ev = "write"
                /\ Trace(a)[i + 1].type = "pong"
                /\ Trace(a)[i + 1].key = Trace(a)[1].key
                /\ i + 2 <= Len(Trace(a)) =>
                      ~(Trace(a)[i + 2].ev = "write" /\ Trace(a)[i + 2].type = "pong")

\* a read of a frame whose type the switch does not know
IsUnknownRead(e) == e.ev = "read" /\ e.ok /\ e.type \in UnknownTypes

\* C8: a step that reads a frame of an unknown type adds nothing but that read
\* to the history (no write, no printer I/O), leaves the position at the read
\* loop and the session state, the acknowledgement and the job untouched; and
\* whatever follows it on the connection's history is the next read.
C8_UnknownFrameIgnored ==
    /\ [][\A a \in SessionAgents : \A t \in UnknownTypes :
            Appended(a, ReadFrame(t)) =>
                /\ Len(sess'[a].trace) = Len(sess[a].trace) + 1
                /\ sess[a].pc = "read" /\ sess'[a].pc = "read"
                /\ sess'[a].acked = sess[a].acked
                /\ sess'[a].job = sess[a].job
                /\ SessionState(a)' = SessionState(a)]_vars
    /\ [](\A a \in SessionAgents : \A i \in 1..Len(Trace(a)) :
            (IsUnknownRead(Trace(a)[i]) /\ i < Len(Trace(a))) =>
                Trace(a)[i + 1].ev = "read")

\* C8 witness: a frame of unknown type was read and the next frame was read
\* after it on the same connection
C8_Witness ==
    \E i \in 1..Len(Trace(1)) :
        /\ IsUnknownRead(Trace(1)[i])
        /\ i < Len(Trace(1))
        /\ Trace(1)[i + 1] = ReadFrame("unregister")

\* C9: reading unregister does nothing but leave the read loop; nothing more
\* happens on that connection; the connection is then closed, one backoff is
\* slept and the loop dials again, which, the non-blocking steps being fair,
\* eventually happens and is followed by a new register on a new connection
\* or by a failed attempt.
C9_UnregisterReconnects ==
    /\ [][\A a \in SessionAgents :
            /\ Appended(a, ReadFrame("unregister")) =>
                  /\ Len(sess'[a].trace) = Len(sess[a].trace) + 1
                  /\ sess'[a].pc = "close"
            /\ (sess[a].pc = "close" /\ sess'[a].pc # "close") =>
                  sess'[a].pc = "reconnectsleep"
            /\ (sess[a].pc = "reconnectsleep" /\ sess'[a].pc # "reconnectsleep") =>
                  (sess'[a].pc = "dial" /\ sess'[a].backoffs = Bump(a, sess[a].backoffs))]_vars
    /\ [](\A a \in SessionAgents : \A i \in 1..Len(Trace(a)) :
            Trace(a)[i] = ReadFrame("unregister") =>
                (i = Len(Trace(a)) /\ sess[a].pc = "close"))
    /\ \A a \in SessionAgents :
          (sess[a].pc = "close" /\ sess[a].ended = "unregister")
              ~> (sess[a].pc = "dial" /\ sess[a].ended = "unregister"
                  /\ sess[a].backoffs >= 1)
    /\ \A a \in SessionAgents :
          (sess[a].pc = "dial" /\ sess[a].ended = "unregister")
              ~> \/ sess[a].pc = "retrysleep"
                 \/ /\ sess[a].pc \in {"read", "close"}
                    /\ Trace(a) = <<Wrote("register", agentP[a].AgentKey,
                                          sess[a].pc = "read", "none")>>

\* C9 witness: after an unregister the session has closed, slept and is about
\* to dial again
C9_Witness ==
    /\ sess[1].pc = "dial"
    /\ sess[1].ended = "unregister"
    /\ sess[1].backoffs >= 1
    /\ sess[1].script = <<>>

\* a read that returned an error
IsReadError(e) == e.ev = "read" /\ ~e.ok

\* C10: a read error (dropped connection or malformed frame) does nothing but
\* leave the read loop; it is the last event of its connection; the
\* connection is then closed and, after one backoff, dialled again.
C10_ReadErrorReconnects ==
    /\ [][\A a \in SessionAgents : \A kind \in {"dropped", "malformed"} :
            Appended(a, ReadFailed(kind)) =>
                /\ Len(sess'[a].trace) = Len(sess[a].trace) + 1
                /\ sess'[a].pc = "close"]_vars
    /\ [](\A a \in SessionAgents : \A i \in 1..Len(Trace(a)) :
            IsReadError(Trace(a)[i]) =>
                (i = Len(Trace(a)) /\ sess[a].pc = "close"))
    /\ \A a \in SessionAgents :
          (sess[a].pc = "close" /\ sess[a].ended \in {"dropped", "malformed"})
              ~> (sess[a].pc = "reconnectsleep" /\ Trace(a) = <<>>)
    /\ \A a \in SessionAgents :
          (sess[a].pc = "reconnectsleep" /\ sess[a].ended \in {"dropped", "malformed"})
              ~> (sess[a].pc = "dial" /\ sess[a].backoffs >= 1)

\* C10 witness: the loop dials again after a malformed frame ended a connection
C10_Witness ==
    /\ sess[1].pc = "dial"
    /\ sess[1].ended = "malformed"
    /\ sess[1].backoffs >= 1

(***************************************************************************)
(* Claims about the handling of print jobs                                 *)
(***************************************************************************)
\* positions of RunAgent inside handlePrintJob
JobPCs == {"render", "send", "printed", "cleanup"}

IsRead(e) == e.ev = "read"

IsSend(e) == e.ev = "send"

IsRender(e) == e.ev = "render"

\* a result message of a job
IsResult(e) == e.ev = "write" /\ e.type \in {"printed", "print_failed"}

\* the events this step added to the history of a
Added(a) == SubSeq(sess'[a].trace, Len(sess[a].trace) + 1, Len(sess'[a].trace))

\* the history of a grew in this step
Grew(a) ==
    /\ Len(sess'[a].trace) > Len(sess[a].trace)
    /\ SubSeq(sess'[a].trace, 1, Len(sess[a].trace)) = sess[a].trace

\* the log line of a payload handlePrintJob returned on without any work
IsSkip(e) == e.ev = "skip"

IsPrintFailed(e) == e.ev = "write" /\ e.type = "print_failed"

IsPrinted(e) == e.ev = "write" /\ e.type = "printed"

IsFailedSend(e) == IsSend(e) /\ ~e.ok

\* os.Remove of the rendered file
IsRemove(e) == e.ev = "remove"

\* whether the history entry e is of the named kind
Is(kind, e) ==
    CASE kind = "IsRead" -> IsRead(e)
      [] kind = "IsSend" -> IsSend(e)
      [] kind = "IsRender" -> IsRender(e)
      [] kind = "IsResult" -> IsResult(e)
      [] kind = "IsFailedSend" -> IsFailedSend(e)
      [] kind = "IsPrinted" -> IsPrinted(e)
      [] kind = "IsPrintFailed" -> IsPrintFailed(e)
      [] kind = "IsSkip" -> IsSkip(e)
      [] kind = "IsRemove" -> IsRemove(e)
      [] kind = "IsFailedReply" ->
            e.ev = "write" /\ ~e.ok /\ e.type \in {"pong", "printed", "print_failed"}

\* how many entries of the sequence t are of the named kind
Count(t, kind) == Cardinality({i \in 1..Len(t) : Is(kind, t[i])})

\* the entries of t after its last read (the handling of the latest frame)
Handling(t) ==
    LET reads == {i \in 1..Len(t) : IsRead(t[i])}
        last  == IF reads = {} THEN 0
                 ELSE CHOOSE i \in reads : \A j \in reads : j <= i
    IN  SubSeq(t, last + 1, Len(t))

\* the read whose handling the entry i of t belongs to (0: none)
FrameOf(t, i) ==
    LET reads == {j \in 1..(i - 1) : IsRead(t[j])}
    IN  IF reads = {} THEN 0 ELSE CHOOSE j \in reads : \A k \in reads : k <= j

HandlingEnd(t, i) ==
    LET reads == {j \in (i + 1)..Len(t) : IsRead(t[j])}
    IN  IF reads = {} THEN Len(t) + 1 ELSE CHOOSE j \in reads : \A k \in reads : j <= k

\* the entries of t that belong to the same handling as its entry i
HandlingOf(t, i) == SubSeq(t, FrameOf(t, i) + 1, HandlingEnd(t, i) - 1)

\* C12: in the copies loop, the transmission that fails is attempt number
\* k <= n of its job and the k - 1 attempts before it succeeded; it is the last
\* transmission attempt of that job (the remaining n - k copies are not
\* attempted and nothing is retried before another print_order is read); the
\* job emits exactly one print_failed and no printed.
C12_FirstFailureAborts ==
    /\ [][\A a \in SessionAgents :
            (build = "img" /\ Grew(a) /\ IsFailedSend(Added(a)[1])) =>
                /\ sess[a].pc = "send"
                /\ sess[a].job.i + 1 <= sess[a].job.n
                /\ Count(Handling(Trace(a)), "IsSend") = sess[a].job.i
                /\ Count(Handling(Trace(a)), "IsFailedSend") = 0
                /\ sess'[a].job.i = sess[a].job.i + 1
                /\ sess'[a].pc = "cleanup"
                /\ Count(Added(a), "IsPrintFailed") = 1
                /\ Count(Added(a), "IsSend") = 1]_vars
    /\ [](\A a \in SessionAgents : build = "img" =>
            \A i \in 1..Len(Trace(a)) :
                IsFailedSend(Trace(a)[i]) =>
                    /\ \A j \in (i + 1)..(HandlingEnd(Trace(a), i) - 1) : ~IsSend(Trace(a)[j])
                    /\ Count(HandlingOf(Trace(a), i), "IsFailedSend") = 1
                    /\ Count(HandlingOf(Trace(a), i), "IsPrintFailed") = 1
                    /\ Count(HandlingOf(Trace(a), i), "IsPrinted") = 0
                    /\ (sess[a].pc = "cleanup" /\ HandlingEnd(Trace(a), i) > Len(Trace(a))) =>
                          /\ Count(HandlingOf(Trace(a), i), "IsSend") = sess[a].job.i
                          /\ sess[a].job.i <= sess[a].job.n)

\* C12 witness: of a job with two copies the first transmission failed, one
\* print_failed was written and the second copy was never attempted when
\* the next frame was read
C12_Witness ==
    /\ build = "img"
    /\ \E i \in 1..Len(Trace(1)) :
          /\ IsFailedSend(Trace(1)[i])
          /\ Trace(1)[i - 2] = ReadFrame("print_order")
          /\ IsPrintFailed(Trace(1)[i + 1])
          /\ HandlingEnd(Trace(1), i) <= Len(Trace(1))
          /\ Count(HandlingOf(Trace(1), i), "IsSend") = 1
    /\ sess[1].ptype = "thermal"

Max(a, b) == IF a > b THEN a ELSE b

\* C13: when the copies loop of a job is over without a failed transmission
\* (the job is about to write, or has written, printed), the transmissions
\* made for it number max(1, copies) of the payload, each of them successful;
\* a copies value of 0 or below gives exactly one.
C13_CopiesAtLeastOne ==
    \A a \in Agents :
        (/\ build = "img"
         /\ sess[a].pc \in {"printed", "cleanup"}
         /\ Count(Handling(Trace(a)), "IsFailedSend") = 0) =>
            /\ Count(Handling(Trace(a)), "IsSend") = Max(1, sess[a].job.copies)
            /\ Count(Handling(Trace(a)), "IsRender") = 1
            /\ sess[a].job.copies < 1 => Count(Handling(Trace(a)), "IsSend") = 1
            /\ sess[a].pc = "cleanup" => Count(Handling(Trace(a)), "IsPrinted") = 1

\* C13 witness: a job whose payload says copies = -1 was rendered, sent once
\* and reported as printed
C13_Witness ==
    /\ build = "img"
    /\ sess[1].pc = "cleanup"
    /\ sess[1].job.copies = -1
    /\ Count(Handling(Trace(1)), "IsSend") = 1
    /\ LastEvent(1) = Wrote("printed", agentP[1].AgentKey, TRUE, "none")

\* the index after the dispatch that starts with the render at entry r of t:
\* the next render or read, or the end of the history
DispatchEnd(t, r) ==
    LET next == {j \in (r + 1)..Len(t) : IsRead(t[j]) \/ IsRender(t[j])}
    IN  IF next = {} THEN Len(t) + 1 ELSE CHOOSE j \in next : \A k \in next : j <= k

\* the history of the dispatch of one job (an order of the PDF build, the
\* payload of the image build): from its render to the next render or read
Dispatch(t, r) == SubSeq(t, r, DispatchEnd(t, r) - 1)

\* C14: every result message belongs to the dispatch of one job; a dispatch
\* holds at most one result message; printed is there only if the rendering
\* and every transmission of the dispatch succeeded (in the image build: all
\* the copies), print_failed only if the rendering or a transmission failed.
C14_OneResultPerJob ==
    \A a \in Agents :
        /\ \A i \in 1..Len(Trace(a)) :
              IsResult(Trace(a)[i]) =>
                  \E r \in (FrameOf(Trace(a), i) + 1)..(i - 1) : IsRender(Trace(a)[r])
        /\ \A r \in 1..Len(Trace(a)) :
              IsRender(Trace(a)[r]) =>
                  LET d == Dispatch(Trace(a), r)
                  IN  /\ Count(d, "IsResult") <= 1
                      /\ Count(d, "IsPrinted") = 1 =>
                            /\ Trace(a)[r].ok
                            /\ Count(d, "IsFailedSend") = 0
                            /\ Count(d, "IsSend") >= 1
                            /\ (build = "img" /\ sess[a].pc = "cleanup"
                                  /\ DispatchEnd(Trace(a), r) > Len(Trace(a))) =>
                                  Count(d, "IsSend") = sess[a].job.n
                      /\ Count(d, "IsPrintFailed") = 1 =>
                            (~Trace(a)[r].ok \/ Count(d, "IsFailedSend") = 1)

\* C14 witness: the history of a connection holds the dispatch of a job that
\* ended in print_failed and the dispatch of a job that ended in printed
C14_Witness ==
    /\ Count(Trace(1), "IsPrintFailed") = 1
    /\ Count(Trace(1), "IsPrinted") = 1
    /\ Count(Trace(1), "IsRender") = 2

\* C15: in the image build a payload with empty content never becomes a job:
\* whatever its copies value, handlePrintJob returns right after the read (the
\* step adds the read and the log line only and stays at the read loop with
\* no job), so nothing is rendered, sent, removed or written for it, and a
\* job that is rendered or sent always has content.
C15_EmptyContentRejected ==
    /\ [][\A a \in SessionAgents :
            (Grew(a) /\ Count(Added(a), "IsSkip") > 0) =>
                /\ Len(Added(a)) = 2
                /\ Added(a)[1] = ReadFrame("print_order")
                /\ IsSkip(Added(a)[2])
                /\ sess[a].pc = "read" /\ sess'[a].pc = "read"
                /\ sess'[a].job = NoJob]_vars
    /\ [](\A a \in SessionAgents :
            /\ (build = "img" /\ sess[a].pc \in JobPCs) => sess[a].job.content # ""
            /\ \A i \in 1..Len(Trace(a)) :
                  IsSkip(Trace(a)[i]) =>
                      /\ Trace(a)[i - 1] = ReadFrame("print_order")
                      /\ HandlingOf(Trace(a), i) = <<Trace(a)[i]>>
            /\ \A i \in 1..Len(Trace(a)) :
                  (IsRender(Trace(a)[i]) \/ IsSend(Trace(a)[i])) =>
                      Count(HandlingOf(Trace(a), i), "IsSkip") = 0)

\* C15 witness: a print_order with empty content was skipped and the next
\* frame was read
C15_Witness ==
    /\ build = "img"
    /\ Len(Trace(1)) >= 4
    /\ Trace(1)[Len(Trace(1)) - 2] = ReadFrame("print_order")
    /\ Trace(1)[Len(Trace(1)) - 1] = Ev("skip", "empty", "", TRUE, "none")
    /\ IsRead(LastEvent(1))

\* C16 (as claimed): in the image build a job rejected by validation is
\* reported: a payload skipped for its empty content is answered by one
\* print_failed, and for a printer of a type that is not thermal, inkjet,
\* laser or unset every call of the dispatcher fails without reaching a
\* socket or the spooler and is answered by a print_failed carrying the error.
C16_RejectionReported ==
    \A a \in Agents : build = "img" =>
        /\ \A i \in 1..Len(Trace(a)) :
              Trace(a)[i] = Ev("skip", "empty", "", TRUE, "none") =>
                  /\ Count(HandlingOf(Trace(a), i), "IsPrintFailed") = 1
                  /\ Count(HandlingOf(Trace(a), i), "IsSend") = 0
        /\ SendFileToPrinter(sess[a].ptype) = "unsupported" =>
              \A i \in 1..Len(Trace(a)) :
                  IsSend(Trace(a)[i]) =>
                      /\ Trace(a)[i] = Ev("send", "printer", "", FALSE, "none")
                      /\ i < Len(Trace(a))
                      /\ IsPrintFailed(Trace(a)[i + 1])
                      /\ Trace(a)[i + 1].extra = "error+orderId"

\* C17 (as claimed): in the image build every print_failed carries the error
\* text, and the order id whenever the payload of the job had one, whether
\* the rendering or a transmission failed.
C17_PrintFailedCarriesOrderId ==
    [][\A a \in SessionAgents :
          (build = "img" /\ Grew(a)) =>
              \A i \in 1..Len(Added(a)) :
                  IsPrintFailed(Added(a)[i]) =>
                      /\ Added(a)[i].extra \in {"error", "error+orderId"}
                      /\ sess[a].job.id # 0 => Added(a)[i].extra = "error+orderId"]_vars

(***************************************************************************)
(* Claims about the ESC/POS conversion                                     *)
(***************************************************************************)
\* the smallest number of bytes that hold w bits
CeilDiv8(w) == (w + 7) \div 8

\* the raster bytes of the returned data (those after the header)
RasterOf(data) == SubSeq(data, 9, Len(data))

\* the 16-bit little-endian field at bytes k, k+1 of data
Field16(data, k) == data[k] + 256 * data[k + 1]

\* C18 (as claimed): the returned data is the 8 header bytes followed by
\* exactly ceil(w/8)*h raster bytes, and rowBytes*height of the header equals
\* the number of raster bytes.
C18_CeilRasterBytes ==
    escpos.done =>
        /\ Len(escpos.data) >= 8
        /\ SubSeq(escpos.data, 1, 4) = <<29, 118, 48, 0>>
        /\ Len(RasterOf(escpos.data)) = CeilDiv8(img.w) * img.h
        /\ Field16(escpos.data, 5) * Field16(escpos.data, 7) = Len(RasterOf(escpos.data))

\* C18 (amended): the returned data is the 8 header bytes 1D 76 30 00,
\* rowBytes and height as 16-bit little-endian, followed by exactly
\* floor(w/8)*h raster bytes (ceil(w/8)*h when w is a multiple of 8); the two
\* header fields hold rowBytes and height modulo 65536, so for bitmaps below
\* that size rowBytes*height of the header is the number of raster bytes.
C18_FloorRasterBytes ==
    /\ escpos.done =>
          /\ Len(escpos.data) >= 8
          /\ SubSeq(escpos.data, 1, 4) = <<29, 118, 48, 0>>
          /\ \A k \in 1..Len(escpos.data) : escpos.data[k] \in 0..255
          /\ Len(RasterOf(escpos.data)) = (img.w \div 8) * img.h
          /\ img.w % 8 = 0 => Len(RasterOf(escpos.data)) = CeilDiv8(img.w) * img.h
          /\ Field16(escpos.data, 5) = img.w \div 8
          /\ Field16(escpos.data, 7) = img.h
          /\ Field16(escpos.data, 5) * Field16(escpos.data, 7) = Len(RasterOf(escpos.data))
    /\ \A v \in {255, 256, 48, 65535, 65536, 65541} :
          /\ Field16(Header(v, 1), 5) = v % 65536
          /\ Field16(Header(1, v), 7) = v % 65536

\* C18 witness: a bitmap of width 17 and height 2 was converted into the
\* header and 2*2 raster bytes, where ceil(17/8)*2 would be 6
C18_Witness ==
    /\ escpos.done
    /\ img.w = 17 /\ img.h = 2
    /\ Len(escpos.data) = 8 + 4
    /\ CeilDiv8(img.w) * img.h = 6

\* the bitmap im with the pixel (x, y) given the colour c
Repaint(im, x, y, c) == [im EXCEPT !.px[<<x, y>>] = c]

\* the pixel columns of a bitmap of width w that are beyond the last whole
\* byte of a row
DroppedColumns(w) == (8 * (w \div 8))..(w - 1)

\* C19: the row width used is the next-lower multiple of 8 (384 for 385):
\* every raster row has floor(w/8) bytes, no more (no padding bits), and the
\* w mod 8 rightmost pixel columns contribute to no bit: whatever colour a
\* pixel of those columns has, the returned data is the same.
C19_WidthTruncated ==
    /\ TruncatedWidth(385) = 384
    /\ \A w \in 0..(8 * MaxWidth) :
          /\ TruncatedWidth(w) % 8 = 0
          /\ TruncatedWidth(w) <= w
          /\ w - TruncatedWidth(w) = w % 8
    /\ escpos.done =>
          /\ Field16(escpos.data, 5) = img.w \div 8
          /\ Len(RasterOf(escpos.data)) = (img.w \div 8) * img.h
          /\ 8 * Field16(escpos.data, 5) <= img.w
          /\ Cardinality(DroppedColumns(img.w)) = img.w % 8
          /\ \A x \in DroppedColumns(img.w) : \A y \in 0..(img.h - 1) :
                \A c \in 1..Len(Colours) :
                    ConvertImageToESCPOS(Repaint(img, x, y, Colours[c])) = escpos.data

\* C19 witness: a converted bitmap of width 17 whose last column, dropped
\* from the two-byte rows, holds a dark pixel
C19_Witness ==
    /\ escpos.done
    /\ img.w = 17 /\ img.h = 2
    /\ Field16(escpos.data, 5) = 2
    /\ Bit(At(img, 16, 1)) = 1
    /\ Bit(At(img, 15, 1)) = 0

\* whether the bit number pos (0 the lowest) of the byte v is set
BitSet(v, pos) == (v \div (2 ^ pos)) % 2 = 1

\* C20: the pixel (x, y) with x below the truncated width is bit
\* 7 - (x mod 8) of raster byte y*rowBytes + floor(x/8), and that bit is 1
\* exactly when the average of R, G and B is below 0x8000; every bit of the
\* raster is the bit of one such pixel.
C20_MsbFirstLuminance ==
    escpos.done =>
        LET rowBytes == img.w \div 8
            raster   == RasterOf(escpos.data)
        IN  \A y \in 0..(img.h - 1) : \A x \in 0..(8 * rowBytes - 1) :
                LET colour == img.px[<<x, y>>]
                    dark   == colour[1] + colour[2] + colour[3] < 3 * 32768
                IN  /\ y * rowBytes + x \div 8 < Len(raster)
                    /\ BitSet(raster[y * rowBytes + x \div 8 + 1], 7 - (x % 8)) <=> dark

\* C20 witness: a converted bitmap of two rows of two bytes in which a pixel
\* just below the midpoint is next to one at the midpoint, packed into the
\* second byte of the second row
C20_Witness ==
    /\ escpos.done
    /\ img.w >= 16 /\ img.h = 2
    /\ img.px[<<9, 1>>] = <<32768, 32768, 32767>>
    /\ img.px[<<10, 1>>] = <<32768, 32768, 32768>>
    /\ BitSet(RasterOf(escpos.data)[4], 6)
    /\ ~BitSet(RasterOf(escpos.data)[4], 5)

(***************************************************************************)
(* Claims about the thermal sink                                           *)
(***************************************************************************)
\* the call returned nil
ThermalSent == thermal.called /\ thermal.err = ""

\* s is a prefix of t that is shorter than t
ProperPrefix(s, t) == Len(s) < Len(t) /\ s = SubSeq(t, 1, Len(s))

\* C21: the bytes a thermal printer receives on the connection of a call
\* that returned nil are exactly: 1B 40; 1D 76 30 00, rowBytes and height as
\* 16-bit little-endian; rowBytes*height raster bytes; 1B 64 03; 1D 56 41 00;
\* they are written by the single Write of the single connection the call
\* opened, which is closed afterwards.  A call that returned an error wrote
\* nothing (open, decode or dial failed) or a proper prefix of that stream
\* (the Write failed).
C21_ThermalByteStream ==
    LET wire     == thermal.wire
        rowBytes == Field16(wire, 7)
        height   == Field16(wire, 9)
        n        == Len(wire)
    IN  /\ ThermalSent =>
              /\ thermal.dials = 1 /\ thermal.writes = 1 /\ thermal.closed
              /\ n >= 17
              /\ SubSeq(wire, 1, 2) = <<27, 64>>
              /\ SubSeq(wire, 3, 6) = <<29, 118, 48, 0>>
              /\ rowBytes = img.w \div 8
              /\ height = img.h
              /\ wire[7] = rowBytes % 256 /\ wire[8] = rowBytes \div 256
              /\ wire[9] = height % 256 /\ wire[10] = height \div 256
              /\ n = 2 + 8 + rowBytes * height + 3 + 4
              /\ \A k \in 1..(rowBytes * height) :
                    wire[10 + k] = Rasterize(img, img.w)[k - 1]
              /\ SubSeq(wire, n - 6, n - 4) = <<27, 100, 3>>
              /\ SubSeq(wire, n - 3, n) = <<29, 86, 65, 0>>
        /\ thermal.err \in {"open", "decode", "dial"} =>
              wire = <<>> /\ thermal.writes = 0
        /\ thermal.err = "write" =>
              /\ thermal.dials = 1 /\ thermal.writes = 1 /\ thermal.closed
              /\ ProperPrefix(wire, <<27, 64>> \o escpos.data
                                               \o <<27, 100, 3, 29, 86, 65, 0>>)

\* a call returned nil after sending a bitmap of at least two rows, one of
\* whose raster bytes is not zero
C21_Witness ==
    /\ ThermalSent
    /\ Field16(thermal.wire, 9) >= 2
    /\ \E k \in 11..(Len(thermal.wire) - 7) : thermal.wire[k] # 0

\* C22 (as claimed): the raster rows a thermal printer receives are as wide
\* as its configured raster width (Printer.Size): the bitmap was resized to
\* that width before it was rasterized.
C22_ResizedToPrinterWidth ==
    ThermalSent =>
        /\ img.w = thermal.size
        /\ Field16(thermal.wire, 7) = thermal.size \div 8

(***************************************************************************)
(* Claims about the dispatch by printer type                               *)
(***************************************************************************)
\* the type values that spell thermal, or nothing, once white space around
\* them and the case of their letters is disregarded
SpelledThermal == {StrThermal, StrThermalPadded, StrThermalUpper, <<>>, StrBlank}

\* the type values that spell inkjet or laser in the same sense
SpelledSystem == {StrInkjet, StrInkjetMixed, StrLaser, StrLaserPadded}

\* the spooler command names x as the destination
Addresses(cmd, x) == \E i \in 1..Len(cmd) : cmd[i] = Arg(x) \/ cmd[i] = IppURI(x)

\* the spooler sink was called and addressed by the printer's name, or by
\* its network address when it has no name
SpooledByNameOrAddress ==
    /\ route.sink = "system"
    /\ route.err \in {"", "print command failed"}
    /\ IF route.name # "" THEN Addresses(route.cmd, route.name)
                          ELSE Addresses(route.cmd, route.ip)

\* no sink was called and the call returned the given error
NoSinkCalled(err) == route.sink = "none" /\ route.cmd = <<>> /\ route.err = err

\* the two parts of the routing that do not depend on the platform
RoutedThermalOrRejected ==
    /\ route.type \in SpelledThermal => route.sink = "thermal" /\ route.cmd = <<>>
    /\ route.type \notin SpelledThermal \cup SpelledSystem =>
          NoSinkCalled("unsupported printer type")

\* C23 (as claimed): thermal and unset types go to the raw-socket path,
\* inkjet and laser to the spooler addressed by the printer's name or, if it
\* has none, by its network address, any other type to an error with no sink
\* called; the type is compared trimmed and in lower case.
C23_RoutedByType ==
    route.called =>
        /\ RoutedThermalOrRejected
        /\ route.type \in SpelledSystem => SpooledByNameOrAddress

\* C23 (amended): as claimed on darwin and linux; on windows inkjet and laser
\* reach the spooler only when the printer has a name, and without one the
\* call returns an error with no sink called; on any other platform inkjet
\* and laser return an error with no sink called.
C23_RoutedByTypeAndPlatform ==
    route.called =>
        /\ RoutedThermalOrRejected
        /\ route.type \in SpelledSystem =>
              CASE route.goos \in {"darwin", "linux"} -> SpooledByNameOrAddress
                [] route.goos = "windows" /\ route.name # "" -> SpooledByNameOrAddress
                [] route.goos = "windows" /\ route.name = "" ->
                     NoSinkCalled("printer name required")
                [] OTHER -> NoSinkCalled("unsupported operating system")

\* a printer without a name whose type is spelled with capitals and padding
\* was sent a file through the spooler, addressed by its network address
C23_Witness ==
    /\ route.called
    /\ route.type = StrLaserPadded
    /\ route.name = ""
    /\ route.sink = "system"
    /\ Addresses(route.cmd, route.ip)

(***************************************************************************)
(* Claims about the rendered file                                          *)
(***************************************************************************)
\* C24 (as claimed): of the dispatch of a job whose file was rendered, the
\* file is not removed when a transmission of the job failed, and it has been
\* removed by the time the next job or frame is taken up when every
\* transmission of the job succeeded.
C24_ArtifactKeptOnFailure ==
    \A a \in Agents :
        \A r \in 1..Len(Trace(a)) :
            (IsRender(Trace(a)[r]) /\ Trace(a)[r].ok) =>
                LET d == Dispatch(Trace(a), r)
                IN  /\ Count(d, "IsFailedSend") > 0 => Count(d, "IsRemove") = 0
                    /\ (/\ DispatchEnd(Trace(a), r) <= Len(Trace(a))
                        /\ Count(d, "IsSend") > 0
                        /\ Count(d, "IsFailedSend") = 0) => Count(d, "IsRemove") = 1

(***************************************************************************)
(* Claims about the discovery scan                                         *)
(***************************************************************************)
\* the local address was detected and the scan started
Scanning == scan.pc \in {"produce", "consume", "returned"} /\ scan.self # 0

\* the workers that hold the candidate h, between receiving and reporting it
Holders(h) ==
    {w \in DOMAIN scan.worker :
        scan.worker[w].pc \in {"probe", "report"} /\ scan.worker[w].ip = h}

\* how many times the candidate h is waiting in ipChan
Queued(h) == Cardinality({i \in 1..Len(scan.ipChan) : scan.ipChan[i] = h})

\* C25 (as claimed): the agent's own address is never put on the queue,
\* never probed, never reported as found and never returned as a printer.
C25_OwnAddressSkipped ==
    Scanning =>
        /\ Queued(scan.self) = 0
        /\ Holders(scan.self) = {}
        /\ scan.probed[scan.self] = 0
        /\ scan.self \notin scan.reported
        /\ \A i \in 1..Len(scan.newPrinters) : scan.newPrinters[i] # scan.self

\* C26: a scan runs exactly the fixed number of workers of the pool, all of
\* them receiving from the one queue ipChan, and the probes in flight (dials
\* started and not yet returned) are those of the workers that are inside
\* Probe, so they never number more than the pool, however many candidates
\* are still queued.
C26_AtMostPoolProbes ==
    /\ Scanning => Len(scan.worker) = MaxWorkers
    /\ ~Scanning => scan.worker = <<>>
    /\ scan.inflight = Cardinality({w \in DOMAIN scan.worker : scan.worker[w].pc = "probe"})
    /\ scan.inflight <= MaxWorkers

\* every worker of the pool is inside Probe while a candidate still waits in
\* the queue
C26_Witness ==
    /\ Scanning
    /\ scan.inflight = MaxWorkers
    /\ MaxWorkers < MaxHosts
    /\ scan.ipChan # <<>>

\* what holds in every state of a scan
ScanSafe ==
    /\ \A h \in Hosts :
          /\ scan.probed[h] <= 1
          /\ Cardinality(Holders(h)) <= 1
          /\ Queued(h) <= 1
          /\ (Queued(h) = 1 \/ Holders(h) # {}) =>
                 (h < scan.next /\ Queued(h) + Cardinality(Holders(h)) = 1)
    /\ (scan.pc = "produce" /\ scan.next <= MaxHosts) => Len(scan.ipChan) < Capacity
    /\ \A w \in DOMAIN scan.worker :
          scan.worker[w].pc = "report" => Len(scan.foundChan) < Capacity
    /\ scan.foundCloses <= 1
    /\ scan.foundCloses = 1 =>
          /\ scan.ipClosed /\ scan.ipChan = <<>>
          /\ \A w \in DOMAIN scan.worker : scan.worker[w].pc = "done"
          /\ \A h \in Hosts : scan.probed[h] = 1
          /\ scan.inflight = 0

\* C27: in a scan no candidate is queued twice, held by two workers or
\* probed twice; the producer's send and a worker's report never find their
\* channel full; foundChan is closed at most once and only when ipChan is
\* closed and drained, every worker is done and every candidate has been
\* probed once; and every scan that started reaches that close, whether or
\* not the operator answers the prompts.
C27_ScanTerminates ==
    /\ []ScanSafe
    /\ (scan.pc = "produce") ~> (scan.foundCloses = 1)

\* the scan is over (foundChan closed) with every candidate found and none
\* of them taken by the prompt loop yet
C27_Witness ==
    /\ scan.foundCloses = 1
    /\ scan.pc = "consume"
    /\ Len(scan.foundChan) = MaxHosts
    /\ scan.reported = Hosts

\* C28 (as claimed): a call that could not detect the local address probes
\* nothing and returns a value that differs from the value returned by a scan
\* that ran and accepted no printer.
C28_NoLocalIPDistinct ==
    (scan.pc = "returned" /\ scan.self = 0) =>
        /\ \A h \in Hosts : scan.probed[h] = 0
        /\ scan.ret # ReturnOf(<<>>)

(***************************************************************************)
(* Claims about the registry over successive saves                         *)
(***************************************************************************)
\* the records a load returns after the step
RecordsAfter == LoadPrinters(file')

\* C29 (as claimed): after every SavePrinters call that returned nil, every
\* record of the persisted registry, whether it was in the file before or
\* was appended by the call, has a non-zero size.
C29_EveryRecordHasSize ==
    [][~saveErr' =>
          \A i \in 1..Len(RecordsAfter) : RecordsAfter[i].Size # 0]_vars

\* s is a prefix of t
Prefix(s, t) == Len(s) <= Len(t) /\ s = SubSeq(t, 1, Len(s))

C31_MergeIdempotent ==
    (~saveErr /\ file = SavePrintersFile(prevFile, incoming)) =>
        /\ SavePrintersFile(file, incoming) = file
        /\ LoadPrinters(SavePrintersFile(file, incoming)) = NowRecords

\* a merge appended a printer of a batch to a registry that held a record
\* lacking a size
C31_Witness ==
    /\ ~saveErr
    /\ file = SavePrintersFile(prevFile, incoming)
    /\ Len(FreshIncoming) > 0
    /\ \E i \in 1..Len(OldRecords) : OldRecords[i].Size = 0

\* C32: once the start loop is over, the running sessions are exactly one per
\* printer that holds a credential after the registration loop, each run with
\* that printer's record, and none for a printer without one; the
\* registration loop visited every printer, whatever the calls returned.
C32_OneSessionPerCredential ==
    mpc \in {"running", "exit"} =>
        /\ idx = Len(printers) + 1
        /\ DOMAIN sess = {i \in 1..Len(printers) : printers[i].AgentKey # ""}
        /\ DOMAIN agentP = DOMAIN sess
        /\ \A i \in DOMAIN sess : agentP[i] = printers[i] /\ sess[i].pc = "dial"
        /\ (mpc = "exit") = (DOMAIN sess = {})

\* the registration of one printer failed, a later printer was issued a
\* credential, and the sessions are running: one for the later printer, none
\* for the one that failed
C32_Witness ==
    /\ mpc = "running"
    /\ \E i, j \in 1..Len(printers) :
          /\ i < j
          /\ printers[i].AgentKey = ""
          /\ j \in issued
          /\ j \in DOMAIN sess
          /\ i \notin DOMAIN sess

\* C33 (as claimed): when the process has exited on the signal, no session is
\* left with a print job that had been taken up and whose result message was
\* not written: a dispatch in flight at the signal has run to its end.
C33_InFlightJobCompletes ==
    mpc = "exited" =>
        \A a \in Agents :
            sess[a].job # NoJob => Count(Handling(Trace(a)), "IsResult") = 1

\* C34: with two sessions running, a step taken by one of them (a failed
\* connect, a read error, an unregister, a failed transmission, or any other
\* step of its loop) leaves the other session exactly as it was and leaves the
\* process running; while the process runs no session leaves the loop of
\* RunAgent; and whatever position one session is at, the steps of the other
\* that do not wait for the backend or the printer stay enabled.
C34_FailuresStayInSession ==
    /\ [][\A a \in Agents :
            (sess'[a] # sess[a] /\ sess'[a].pc # "killed") =>
                /\ mpc' = mpc
                /\ \A b \in Agents \ {a} : sess'[b] = sess[b]]_vars
    /\ [](mpc = "running" =>
            \A a \in Agents :
                /\ sess[a].pc \in SessionPCs
                /\ sess[a].pc = "dial" => ENABLED RunAgentDial(a)
                /\ sess[a].pc = "retrysleep" => ENABLED RunAgentRetrySleep(a)
                /\ sess[a].pc = "register" => ENABLED HandleConnectionRegister(a)
                /\ sess[a].pc = "close" => ENABLED RunAgentClose(a)
                /\ sess[a].pc = "reconnectsleep" => ENABLED RunAgentReconnectSleep(a))

\* the first session failed to transmit a job and then lost its connection,
\* which it is about to close, while the second is still on the connection it
\* registered on
C34_Witness ==
    /\ mpc = "running"
    /\ Agents = {1, 2}
    /\ sess[1].pc = "close"
    /\ sess[1].ended = "dropped"
    /\ Count(Trace(1), "IsFailedSend") = 1
    /\ sess[2].pc = "read"
    /\ sess[2].ended = ""
    /\ Trace(2) = <<Wrote("register", agentP[2].AgentKey, TRUE, "none")>>

\* C35: for the printers of every state of the start-up and every response,
\* RegisterPrinterOnServer returns an error and leaves the printer as it was
\* when no response came, the status is 400 or above, or the body is not an
\* envelope with a string data.agent_key; otherwise it returns nil and sets
\* the credential to that string and nothing else. The registration loop
\* calls it only for a printer whose credential is empty: an iteration over a
\* printer that has one changes nothing, and an iteration changes at most the
\* credential of the printer it is at.
C35_RegistrationOutcome ==
    /\ [](\A i \in 1..Len(printers) : \A resp \in Responses :
            LET r == RegisterPrinterOnServer(printers[i], resp)
                good == /\ resp.transport = "ok"
                        /\ resp.status < 400
                        /\ resp.shape = "envelope"
            IN  /\ ~good => (r.err /\ r.p = printers[i])
                /\ good => /\ ~r.err
                           /\ r.p.AgentKey = resp.key
                           /\ r.p = [printers[i] EXCEPT !.AgentKey = resp.key])
    /\ [][(mpc = "register" /\ idx' = idx + 1) =>
            /\ printers[idx].AgentKey # "" =>
                  (printers' = printers /\ issued' = issued /\ dirty' = dirty)
            /\ \A i \in 1..Len(printers) : i # idx => printers'[i] = printers[i]
            /\ Len(printers') = Len(printers)
            /\ printers'[idx].IP = printers[idx].IP
            /\ printers'[idx].Size = printers[idx].Size
            /\ issued' # issued => (dirty' /\ issued' = issued \cup {idx})]_vars

\* the registration loop is past a printer whose registration failed and a
\* later one that was issued a credential, and is at a printer that has one
C35_Witness ==
    /\ mpc = "register"
    /\ idx <= Len(printers)
    /\ printers[idx].AgentKey # ""
    /\ \E i, j \in 1..(idx - 1) :
          /\ i < j
          /\ printers[i].AgentKey = ""
          /\ i \notin issued
          /\ j \in issued
          /\ printers[j].AgentKey # ""

LivePCs == OpenPCs \cup {"register", "close"}

\* C37: a session holds a connection exactly from a successful dial to the
\* conn.Close() that follows the return of handleConnection. A connection is
\* opened only by a dial made while the session holds none, and starts with
\* an empty history; the only way out of a connection is the one close, made
\* after handleConnection returned; the close is followed by one wait and
\* only then by the next dial.
C37_OneLiveConnection ==
    /\ [][\A a \in SessionAgents :
            /\ (sess[a].pc \notin LivePCs /\ sess'[a].pc \in LivePCs) =>
                  (sess[a].pc = "dial" /\ sess'[a].pc = "register" /\ sess'[a].trace = <<>>)
            /\ (sess'[a].pc = "register" /\ sess[a].pc # "register") => sess[a].pc = "dial"
            /\ (sess[a].pc \in LivePCs /\ sess'[a].pc \notin LivePCs) =>
                  /\ sess[a].pc = "close"
                  /\ sess[a].ended # ""
                  /\ sess'[a].pc = "reconnectsleep"
            /\ (sess'[a].pc = "close" /\ sess[a].pc # "close") =>
                  (sess[a].pc \in OpenPCs \cup {"register"} /\ sess'[a].ended # "")
            /\ (sess[a].pc = "reconnectsleep" /\ sess'[a].pc # "reconnectsleep") =>
                  (sess'[a].pc = "dial" /\ sess'[a].backoffs = Bump(a, sess[a].backoffs))
            /\ (sess'[a].pc = "dial" /\ sess[a].pc # "dial") =>
                  sess[a].pc \in {"retrysleep", "reconnectsleep"}]_vars
    /\ [](\A a \in SessionAgents :
            /\ sess[a].pc \in SessionPCs
            /\ sess[a].pc \notin LivePCs => Trace(a) = <<>>)

\* the second connection of a session: opened by the fourth attempt, after
\* the two waits of the rejected attempts and the one wait that followed the
\* close of the first connection
C37_Witness ==
    /\ sess[1].script = RejectTwice
    /\ sess[1].attempts = 4
    /\ sess[1].backoffs = 3
    /\ sess[1].pc = "read"
    /\ Len(Trace(1)) = 1

\* a write of a pong, printed or print_failed message that returned an error
IsFailedReply(e) ==
    e.ev = "write" /\ ~e.ok /\ e.type \in {"pong", "printed", "print_failed"}

\* C38: a step in which the write of a pong, printed or print_failed message
\* fails leaves the session on its connection (at the read loop or in the
\* rest of the job, which leads back to it) and records no reason to leave;
\* a session is on its way to close the connection only after a failed
\* register write, a failed read or an unregister frame, which is then the
\* last entry of the connection's history; and back at the read loop after a
\* failed write the session reads the next frame the backend sends.
C38_FailedReplyKeepsConnection ==
    /\ [][\A a \in SessionAgents :
            (Grew(a) /\ \E i \in 1..Len(Added(a)) : IsFailedReply(Added(a)[i])) =>
                /\ sess'[a].pc \in OpenPCs
                /\ sess'[a].ended = sess[a].ended]_vars
    /\ [](\A a \in SessionAgents :
            /\ sess[a].pc = "close" =>
                  \/ /\ sess[a].ended = "register"
                     /\ LastEvent(a) = Wrote("register", agentP[a].AgentKey, FALSE, "none")
                  \/ /\ sess[a].ended \in {"dropped", "malformed"}
                     /\ LastEvent(a) = ReadFailed(sess[a].ended)
                  \/ /\ sess[a].ended = "unregister"
                     /\ LastEvent(a) = ReadFrame("unregister")
            /\ sess[a].pc \in OpenPCs => sess[a].ended = ""
            /\ (sess[a].pc = "read" /\ Count(Trace(a), "IsFailedReply") > 0) =>
                  ENABLED HandleUnregister(a))

\* the write of the printed message of a job failed, the job was finished and
\* the loop read the next frame, an unregister
C38_Witness ==
    /\ sess[1].pc = "close"
    /\ LastEvent(1) = ReadFrame("unregister")
    /\ \E i \in 1..Len(Trace(1)) :
          /\ IsFailedReply(Trace(1)[i])
          /\ Trace(1)[i].type = "printed"

\* a rendering that returned an error
IsFailedRender(e) == IsRender(e) /\ ~e.ok

\* the log line of a payload that could not be parsed
IsParseSkip(e) == IsSkip(e) /\ e.type = "parse"

\* C39: the step in which a rendering fails or a payload fails to parse makes
\* no transmission attempt, writes no printed message, and leaves the session
\* on its connection with no reason to leave it: at the read loop, or (PDF
\* build, more orders in the payload) at the rendering of the next order. On
\* the history, the handling of a frame whose payload did not parse is that
\* log line alone; in the image build a failed rendering is followed in its
\* handling by the print_failed message and nothing else; in the PDF build it
\* is followed in its handling, if by anything, by the next rendering.
C39_NothingSentWithoutArtifact ==
    /\ [][\A a \in SessionAgents :
            (Grew(a) /\ \E i \in 1..Len(Added(a)) :
                            IsFailedRender(Added(a)[i]) \/ IsParseSkip(Added(a)[i])) =>
                /\ Count(Added(a), "IsSend") = 0
                /\ Count(Added(a), "IsPrinted") = 0
                /\ sess'[a].pc \in {"read", "render"}
                /\ build = "img" => sess'[a].pc = "read"
                /\ sess'[a].pc = "read" => sess'[a].job = NoJob
                /\ sess'[a].ended = sess[a].ended]_vars
    /\ [](\A a \in SessionAgents : \A i \in 1..Len(Trace(a)) :
            /\ IsParseSkip(Trace(a)[i]) =>
                  /\ HandlingOf(Trace(a), i) = <<Trace(a)[i]>>
                  /\ Trace(a)[i - 1] = ReadFrame("print_order")
            /\ (IsFailedRender(Trace(a)[i]) /\ build = "img") =>
                  /\ HandlingEnd(Trace(a), i) = i + 2
                  /\ IsPrintFailed(Trace(a)[i + 1])
                  /\ Count(HandlingOf(Trace(a), i), "IsSend") = 0
                  /\ Count(HandlingOf(Trace(a), i), "IsPrinted") = 0
            /\ (IsFailedRender(Trace(a)[i]) /\ build = "pdf"
                    /\ i + 1 < HandlingEnd(Trace(a), i)) =>
                  IsRender(Trace(a)[i + 1]))

\* the rendering of a job failed, print_failed was written, and the next
\* frame was read on the same connection
C39_Witness ==
    /\ build = "img"
    /\ \E i \in 1..Len(Trace(1)) :
          /\ IsFailedRender(Trace(1)[i])
          /\ i + 2 = Len(Trace(1))
          /\ IsPrintFailed(Trace(1)[i + 1])
          /\ IsRead(Trace(1)[i + 2])

\* how many times the address h is waiting in foundChan
Found(h) == Cardinality({i \in 1..Len(scan.foundChan) : scan.foundChan[i] = h})

\* the workers whose probe of h succeeded and that are about to send it
Reporting(h) ==
    {w \in DOMAIN scan.worker : scan.worker[w].pc = "report" /\ scan.worker[w].ip = h}

\* 1 if the prompt loop has received the address h, 0 if not
Prompted(h) == IF h \in scan.prompted THEN 1 ELSE 0

\* C40: at every moment of a scan each candidate whose probe succeeded is
\* in exactly one place (with the worker about to send it, in foundChan, or
\* received by the prompt loop) and a candidate whose probe did not succeed
\* is in none, so that no address reaches the prompt loop twice; the
\* printers accepted are among the addresses the prompt loop received, each
\* at most once; and when the scan returns every candidate has been probed
\* once, whatever the outcome of the other probes, foundChan is empty and the
\* prompt loop has received exactly the candidates whose probe succeeded.
C40_FoundExactlyTheOpenHosts ==
    Scanning =>
        /\ \A h \in Hosts :
              /\ Prompted(h) + Found(h) + Cardinality(Reporting(h))
                    = IF h \in scan.opened THEN 1 ELSE 0
              /\ h \in scan.opened => scan.probed[h] = 1
              /\ h \in scan.reported <=> Prompted(h) + Found(h) = 1
        /\ \A i \in 1..Len(scan.newPrinters) :
              /\ scan.newPrinters[i] \in scan.prompted
              /\ \A j \in 1..Len(scan.newPrinters) :
                    scan.newPrinters[i] = scan.newPrinters[j] => i = j
        /\ scan.pc = "returned" =>
              /\ scan.foundChan = <<>>
              /\ scan.prompted = scan.opened
              /\ \A h \in Hosts : scan.probed[h] = 1

\* a scan returned in which the probe of one candidate failed and the later
\* candidates answered and were received by the prompt loop, the later of two
\* before the earlier
C40_Witness ==
    /\ scan.pc = "returned"
    /\ scan.self # 0
    /\ scan.opened = Hosts \ {1}
    /\ scan.prompted = scan.opened
    /\ Len(scan.newPrinters) >= 2
    /\ scan.newPrinters[1] > scan.newPrinters[2]

====
